---- MODULE Spec2Model ----
(***************************************************************************)
(* Execution core of the VILAGENT GUI agent: the AgentState record         *)
(* (state.py), the node functions (nodes.py), the routers (edges.py) and   *)
(* the tool executor with its wiring (workflow.py).                        *)
(*                                                                         *)
(* Three specifications share the variables:                               *)
(*   Spec      the wired workflow of one run, one action per node;         *)
(*   SpecExec  one caller issuing DefaultToolExecutor.call invocations     *)
(*             one after the other;                                        *)
(*   SpecConc  several threads inside DefaultToolExecutor.call at once,    *)
(*             one action per statement group of the method.               *)
(***************************************************************************)
EXTENDS Integers, Sequences, FiniteSets, TLC

VARIABLES
    \* AgentState (state.py:341-383)
    run_id, status, plan, perception, actions, policy, retry, telemetry,
    requires_human_approval, approved, last_step_started_ms, done_reason,
    scratch,
    \* graph engine position: node about to run, node that ran last
    node, prev,
    \* RuntimeDeps (workflow.py:247-259) and the wall clock read by now_ms()
    deps, now,
    \* DefaultToolExecutor._idem and the backend invocations made so far
    idem, dispatch_count,
    \* observations of the run: calls handed to the executor by act/recover,
    \* step indexes for which WAITING_APPROVAL was set, last verifier return,
    \* what the planner, selector or recovery function called by the last node
    \* returned
    execLog, waited, verdict, picked,
    \* SpecExec: the invocations of call made so far, with what each returned
    callLog,
    \* SpecConc: the executor's mutex and each thread's position in call
    lock, tpc, tcall, tres, tret,
    \* SpecRuns: the AgentState, executor and graph position of a second run
    \* that is between two of its nodes
    other

stateVars == <<run_id, status, plan, perception, actions, policy, retry, telemetry,
               requires_human_approval, approved, last_step_started_ms,
               done_reason, scratch>>
engineVars == <<node, prev, now, execLog, waited, verdict, picked, other>>
threadVars == <<lock, tpc, tcall, tres, tret>>
vars == <<stateVars, engineVars, deps, idem, dispatch_count, callLog, threadVars>>

-----------------------------------------------------------------------------
(* Bounds of the model *)

\* longest sequence of sequential executor calls explored by SpecExec
MaxCalls == 3

-----------------------------------------------------------------------------
(* Data contracts (state.py) *)

\* Python None
NULL == "null"

\* None in the place of a timestamp (AgentState.last_step_started_ms)
NoTime == -1

\* ToolResult.data: None, a dict (of which hash and b64 are read) or a list
NoData == [kind |-> "none", hash |-> NULL, b64 |-> NULL]
DictData(h, b) == [kind |-> "dict", hash |-> h, b64 |-> b]
ListData == [kind |-> "list", hash |-> NULL, b64 |-> NULL]

ToolResult(ok, data, error) == [ok |-> ok, data |-> data, error |-> error]

ToolCall(name, args, key, timeout) ==
    [name |-> name, args |-> args, idempotency_key |-> key, timeout_ms |-> timeout]

\* ErrorCode (state.py:58-96)
POLICY_DENY_ALLOWLIST == "POLICY_DENY: Tool not in allowlist"
POLICY_DENY_DENYLIST == "POLICY_DENY: Tool in denylist"
TOOL_NOT_FOUND == "TOOL_NOT_FOUND"
MCP_NOT_CONFIGURED == "MCP_NOT_CONFIGURED"

\* str(error).startswith("POLICY_DENY")
IsPolicyDeny(error) ==
    error \in {POLICY_DENY_ALLOWLIST, POLICY_DENY_DENYLIST, "POLICY_DENY: runtime"}

\* PolicyContext
PolicyContext(allow, deny, req) ==
    [tool_allowlist |-> allow, tool_denylist |-> deny,
     require_approval_for_high_risk |-> req,
     last_decision |-> NULL, deny_reason |-> NULL]

\* Telemetry: the set of event types emitted so far stands for the event list
Telemetry0 == [events |-> {}, last_error |-> NULL, error_code |-> NULL]

Event(tel, types) == [tel EXCEPT !.events = @ \cup types]

-----------------------------------------------------------------------------
(* Tool registry (workflow.py) *)

\* get_local_tools()
LocalTools == {"wait", "ping", "time_now_ms", "clipboard_get", "clipboard_set"}

\* default_mcp_map().alias_to_fq
McpAliases == {"screen_capture", "omniparser_v2_parse", "screenshot_diff",
               "click", "double_click", "right_click", "move", "drag", "scroll",
               "type_text", "hotkey", "key_down", "key_up",
               "focus_window", "uia_tree", "uia_click", "uia_set_text"}

\* default_mcp_map().alias_to_fq: the fully-qualified name of each alias
alias_to_fq ==
    [screen_capture |-> "vision_server.screen_capture",
     omniparser_v2_parse |-> "vision_server.omniparser_v2_parse",
     screenshot_diff |-> "vision_server.screenshot_diff",
     click |-> "mouse_server.click",
     double_click |-> "mouse_server.double_click",
     right_click |-> "mouse_server.right_click",
     move |-> "mouse_server.move",
     drag |-> "mouse_server.drag",
     scroll |-> "mouse_server.scroll",
     type_text |-> "keyboard_server.type_text",
     hotkey |-> "keyboard_server.hotkey",
     key_down |-> "keyboard_server.key_down",
     key_up |-> "keyboard_server.key_up",
     focus_window |-> "uia_server.focus_window",
     uia_tree |-> "uia_server.uia_tree",
     uia_click |-> "uia_server.uia_click",
     uia_set_text |-> "uia_server.uia_set_text"]

\* MCPMap.resolve
resolve(d, alias) == IF alias \in d.mcp_aliases THEN alias_to_fq[alias] ELSE NULL

has_local(d, alias) == alias \in d.local_tools
has_mcp(d, alias) == alias \in d.mcp_aliases
RegistryHas(d, alias) == has_local(d, alias) \/ has_mcp(d, alias)

-----------------------------------------------------------------------------
(* DefaultToolExecutor (workflow.py:171-240) *)

\* What a backend (local function or remote client) does when invoked:
\* it returns a ToolResult or raises.
Returns(res) == [raises |-> FALSE, res |-> res]

\* a backend that breaks its contract returns None in the place of a
\* ToolResult; call then raises AttributeError on res.ok (workflow.py:239)
NotAToolResult == ToolResult(FALSE, NoData, "AttributeError: 'NoneType' object has no attribute 'ok'")
Raises == [raises |-> TRUE, res |-> ToolResult(FALSE, NoData, "RuntimeError: boom")]

\* variant of _policy_allows that looks at the denylist only
policy_allows_denylist_only(pol, alias) ==
    IF alias \in pol.tool_denylist
    THEN [res |-> ToolResult(FALSE, NoData, POLICY_DENY_DENYLIST),
          policy |-> [pol EXCEPT !.last_decision = "DENY",
                                 !.deny_reason = "Tool in denylist"]]
    ELSE [res |-> ToolResult(TRUE, NoData, NULL),
          policy |-> [pol EXCEPT !.last_decision = "ALLOW",
                                 !.deny_reason = NULL]]

\* DefaultToolExecutor._policy_allows (workflow.py:188-200)
policy_allows(pol, alias) ==
    IF pol.tool_allowlist # {} /\ alias \notin pol.tool_allowlist
    THEN [res |-> ToolResult(FALSE, NoData, POLICY_DENY_ALLOWLIST),
          policy |-> [pol EXCEPT !.last_decision = "DENY",
                                 !.deny_reason = "Tool not in allowlist"]]
    ELSE IF alias \in pol.tool_denylist
    THEN [res |-> ToolResult(FALSE, NoData, POLICY_DENY_DENYLIST),
          policy |-> [pol EXCEPT !.last_decision = "DENY",
                                 !.deny_reason = "Tool in denylist"]]
    ELSE [res |-> ToolResult(TRUE, NoData, NULL),
          policy |-> [pol EXCEPT !.last_decision = "ALLOW",
                                 !.deny_reason = NULL]]

\* variant of the routing that asks the remote mapping first
Route_remote_first(d, call) ==
    IF has_mcp(d, call.name) /\ d.mcp_configured THEN "mcp"
    ELSE IF has_local(d, call.name) THEN "local"
    ELSE IF ~has_mcp(d, call.name) THEN "not_found"
    ELSE "not_configured"

\* the backend a call is routed to: "local", "mcp" or none
Route(d, call) ==
    IF has_local(d, call.name) THEN "local"
    ELSE IF ~has_mcp(d, call.name) THEN "not_found"
    ELSE IF ~d.mcp_configured THEN "not_configured"
    ELSE "mcp"

Invokes(d, call) == Route(d, call) \in {"local", "mcp"}

\* the invocation the dispatch makes: fn(call.args) of a local function, or
\* mcp.call(fq, call.args, timeout_ms=call.timeout_ms), or none
NoInvocation == [backend |-> "none", target |-> NULL, args |-> NULL, timeout_ms |-> NoTime]

Invocation(d, call) ==
    CASE Route(d, call) = "local" ->
            [backend |-> "local", target |-> call.name, args |-> call.args,
             timeout_ms |-> NoTime]
      [] Route(d, call) = "mcp" ->
            [backend |-> "mcp", target |-> resolve(d, call.name), args |-> call.args,
             timeout_ms |-> call.timeout_ms]
      [] OTHER -> NoInvocation

\* the try block: the result of the dispatch, exceptions converted
Dispatch(d, call, outcome) ==
    CASE Route(d, call) = "not_found" -> ToolResult(FALSE, NoData, TOOL_NOT_FOUND)
      [] Route(d, call) = "not_configured" -> ToolResult(FALSE, NoData, MCP_NOT_CONFIGURED)
      [] OTHER -> outcome.res

CacheLookup(cache, key) == IF key \in DOMAIN cache THEN cache[key] ELSE NULL

\* variant of CacheHit that only honours cached successes
CacheHitOkOnly(cache, key) == key \in DOMAIN cache /\ cache[key].ok

CacheHit(cache, key) == key \in DOMAIN cache

CacheInsert(cache, key, res) ==
    [k \in DOMAIN cache \cup {key} |-> IF k = key THEN res ELSE cache[k]]

\* the backend invocations counted under key k
CountOf(cnt, k) == IF k \in DOMAIN cnt THEN cnt[k] ELSE 0

CountUp(cnt, key) ==
    [k \in DOMAIN cnt \cup {key} |->
        IF k = key THEN (IF k \in DOMAIN cnt THEN cnt[k] ELSE 0) + 1 ELSE cnt[k]]

\* One whole call made by a single caller. ex is the executor's world, of
\* which policy, idem, count and events are read; the result is the world
\* after the call together with what the call returned and did. idem holds
\* the entries that _idem.get finds: a None stored at workflow.py:237 is
\* none of them. When call raises, res is NotAToolResult and raised is TRUE.
ExecutorCall(d, ex, call, outcome) ==
    LET pa == policy_allows(ex.policy, call.name)
        key == call.idempotency_key
        res == Dispatch(d, call, outcome)
    IN
    IF ~pa.res.ok
    THEN [policy |-> pa.policy, idem |-> ex.idem, count |-> ex.count,
          events |-> ex.events \cup {"tool_denied"},
          res |-> pa.res, invoked |-> FALSE, emitted |-> "tool_denied",
          backend |-> NoInvocation, raised |-> FALSE]
    ELSE IF CacheHit(ex.idem, key)
    THEN [policy |-> pa.policy, idem |-> ex.idem, count |-> ex.count,
          events |-> ex.events \cup {"tool_idempotent_hit"},
          res |-> CacheLookup(ex.idem, key),
          invoked |-> FALSE, emitted |-> "tool_idempotent_hit",
          backend |-> NoInvocation, raised |-> FALSE]
    ELSE IF res = NotAToolResult
    THEN [policy |-> pa.policy, idem |-> ex.idem,
          count |-> CountUp(ex.count, key), events |-> ex.events,
          res |-> res, invoked |-> TRUE, emitted |-> "none",
          backend |-> Invocation(d, call), raised |-> TRUE]
    ELSE [policy |-> pa.policy, idem |-> CacheInsert(ex.idem, key, res),
          count |-> IF Invokes(d, call) THEN CountUp(ex.count, key) ELSE ex.count,
          events |-> ex.events \cup {"tool_called"},
          res |-> res, invoked |-> Invokes(d, call), emitted |-> "tool_called",
          backend |-> Invocation(d, call), raised |-> FALSE]

World(pol, cache, cnt, evs) ==
    [policy |-> pol, idem |-> cache, count |-> cnt, events |-> evs]

-----------------------------------------------------------------------------
(* Initial AgentState: AgentState(run_id, goal) with the dataclass defaults *)

\* the run id the runner gives to AgentState(run_id, goal)
RUN_ID == "run"

\* new_id("run") (state.py:103-104): a fresh random id
NewRunIds == {"run_1f", "run_a0"}

\* AgentState.ensure_run_id (state.py:385-387)
ensure_run_id(id, fresh) == IF id = "" THEN fresh ELSE id

NoPlan == [steps |-> <<>>, current_step_idx |-> 0, present |-> FALSE]
NoPerception == [present |-> FALSE, screenshot_hash |-> NULL, screenshot_b64 |-> NULL,
                 has_uia_tree |-> FALSE, has_elements |-> FALSE]
RetryBudget(total) == [total_budget |-> total, used |-> 0, step_retry_counts |-> <<>>]
Scratch0 == [executor |-> FALSE, focus_hint |-> FALSE, need_vision |-> TRUE,
             force_replan |-> FALSE, verify_details |-> NULL]

\* default_factory registry with a configured remote client
DefaultDeps(b64) ==
    [local_tools |-> LocalTools, mcp_aliases |-> McpAliases,
     mcp_configured |-> TRUE, store_screenshot_b64 |-> b64]

\* ensure_policy_defaults (state.py:389-393)
DefaultDenylist == {"file_delete", "process_kill", "registry_write"}

IdleThreads ==
    /\ lock = NULL
    /\ tpc = <<>>
    /\ tcall = <<>>
    /\ tres = <<>>
    /\ tret = <<>>

FreshState ==
    /\ status = "INIT"
    /\ plan = NoPlan
    /\ perception = NoPerception
    /\ actions = <<>>
    /\ telemetry = Telemetry0
    /\ requires_human_approval = FALSE
    /\ approved = FALSE
    /\ last_step_started_ms = NoTime
    /\ done_reason = NULL
    /\ idem = <<>>
    /\ dispatch_count = <<>>
    /\ execLog = <<>>
    /\ waited = {}
    /\ verdict = NULL
    /\ picked = NULL
    /\ callLog = <<>>
    /\ now = 0

\* no second run
NoRun == [node |-> "none"]

\* a single run
OneRun == other = NoRun

-----------------------------------------------------------------------------
(* SpecExec: one caller, DefaultToolExecutor.call invoked again and again *)

ExecPolicies ==
    {PolicyContext({}, DefaultDenylist, TRUE),
     PolicyContext({"wait", "click"}, {}, TRUE),
     PolicyContext({}, {"click"}, FALSE)}

ExecCalls ==
    {ToolCall(n, "a", <<k>>, 30000) :
        n \in {"click", "wait", "file_delete", "rag_query"}, k \in {"k1", "k2"}}

ExecOutcomes ==
    {Returns(ToolResult(TRUE, NoData, NULL)),
     Returns(ToolResult(FALSE, NoData, "tool failed")),
     Raises}

InitExec ==
    /\ FreshState
    /\ OneRun
    /\ run_id = RUN_ID
    /\ IdleThreads
    /\ node = "none"
    /\ prev = "none"
    /\ scratch = [Scratch0 EXCEPT !.executor = TRUE]
    /\ retry = RetryBudget(8)
    /\ policy \in ExecPolicies
    /\ deps \in {DefaultDeps(FALSE),
                 [DefaultDeps(FALSE) EXCEPT !.mcp_configured = FALSE],
                 [DefaultDeps(FALSE) EXCEPT !.local_tools = @ \cup {"click"}]}

Call(call, outcome) ==
    LET r == ExecutorCall(deps, World(policy, idem, dispatch_count, telemetry.events),
                          call, outcome) IN
    /\ Len(callLog) < MaxCalls
    /\ policy' = r.policy
    /\ idem' = r.idem
    /\ dispatch_count' = r.count
    /\ telemetry' = [telemetry EXCEPT !.events = r.events]
    /\ callLog' = Append(callLog, [call |-> call, res |-> r.res,
                                   invoked |-> r.invoked, emitted |-> r.emitted,
                                   backend |-> r.backend])
    /\ UNCHANGED <<run_id, status, plan, perception, actions, retry,
                   requires_human_approval, approved, last_step_started_ms,
                   done_reason, scratch, engineVars, deps, threadVars>>

NextExec == \E call \in ExecCalls, outcome \in ExecOutcomes : Call(call, outcome)

SpecExec == InitExec /\ [][NextExec]_vars

-----------------------------------------------------------------------------
(* SpecConc: threads inside DefaultToolExecutor.call on one executor *)

Threads == {"t1", "t2"}

ConcCalls ==
    {ToolCall(n, "a", <<"k1">>, 30000) : n \in {"click", "wait", "file_delete"}}

ConcOutcomes ==
    {Returns(ToolResult(TRUE, NoData, NULL)),
     Returns(ToolResult(FALSE, NoData, "tool failed"))}

InitConc ==
    /\ FreshState
    /\ OneRun
    /\ run_id = RUN_ID
    /\ node = "none"
    /\ prev = "none"
    /\ scratch = [Scratch0 EXCEPT !.executor = TRUE]
    /\ retry = RetryBudget(8)
    /\ policy = PolicyContext({}, DefaultDenylist, TRUE)
    /\ deps = DefaultDeps(FALSE)
    /\ lock = NULL
    /\ tpc = [t \in Threads |-> "idle"]
    /\ tcall = [t \in Threads |-> NULL]
    /\ tres = [t \in Threads |-> NULL]
    /\ tret = [t \in Threads |-> NULL]

ConcFrame == UNCHANGED <<run_id, status, plan, perception, actions, retry,
                         requires_human_approval, approved, last_step_started_ms,
                         done_reason, scratch, engineVars, deps, callLog>>

\* a thread enters call(call)
TEnter(t) ==
    /\ tpc[t] = "idle"
    /\ \E call \in ConcCalls : tcall' = [tcall EXCEPT ![t] = call]
    /\ tpc' = [tpc EXCEPT ![t] = "policy"]
    /\ UNCHANGED <<policy, telemetry, idem, dispatch_count, lock, tres, tret>>
    /\ ConcFrame

\* workflow.py:204-207, no lock taken
TPolicy(t) ==
    /\ tpc[t] = "policy"
    /\ LET pa == policy_allows(policy, tcall[t].name) IN
        /\ policy' = pa.policy
        /\ IF pa.res.ok
           THEN /\ tpc' = [tpc EXCEPT ![t] = "lock_lookup"]
                /\ UNCHANGED <<telemetry, tret>>
           ELSE /\ telemetry' = Event(telemetry, {"tool_denied"})
                /\ tret' = [tret EXCEPT ![t] = pa.res]
                /\ tpc' = [tpc EXCEPT ![t] = "done"]
    /\ UNCHANGED <<idem, dispatch_count, lock, tcall, tres>>
    /\ ConcFrame

\* `with self._lock:` at workflow.py:210 and :236
TAcquire(t) ==
    /\ tpc[t] \in {"lock_lookup", "lock_insert"}
    /\ lock = NULL
    /\ lock' = t
    /\ tpc' = [tpc EXCEPT ![t] = IF tpc[t] = "lock_lookup" THEN "lookup" ELSE "insert"]
    /\ UNCHANGED <<policy, telemetry, idem, dispatch_count, tcall, tres, tret>>
    /\ ConcFrame

\* workflow.py:211-214, the lock is released on leaving the block
TLookup(t) ==
    /\ tpc[t] = "lookup"
    /\ lock = t
    /\ lock' = NULL
    /\ IF CacheHit(idem, tcall[t].idempotency_key)
       THEN /\ telemetry' = Event(telemetry, {"tool_idempotent_hit"})
            /\ tret' = [tret EXCEPT ![t] = CacheLookup(idem, tcall[t].idempotency_key)]
            /\ tpc' = [tpc EXCEPT ![t] = "done"]
       ELSE /\ tpc' = [tpc EXCEPT ![t] = "dispatch"]
            /\ UNCHANGED <<telemetry, tret>>
    /\ UNCHANGED <<policy, idem, dispatch_count, tcall, tres>>
    /\ ConcFrame

\* workflow.py:217-233, outside the lock
TDispatch(t) ==
    /\ tpc[t] = "dispatch"
    /\ \E outcome \in ConcOutcomes :
          tres' = [tres EXCEPT ![t] = Dispatch(deps, tcall[t], outcome)]
    /\ dispatch_count' = IF Invokes(deps, tcall[t])
                         THEN CountUp(dispatch_count, tcall[t].idempotency_key)
                         ELSE dispatch_count
    /\ tpc' = [tpc EXCEPT ![t] = "lock_insert"]
    /\ UNCHANGED <<policy, telemetry, idem, lock, tcall, tret>>
    /\ ConcFrame

\* workflow.py:236-237
TInsert(t) ==
    /\ tpc[t] = "insert"
    /\ lock = t
    /\ lock' = NULL
    /\ idem' = CacheInsert(idem, tcall[t].idempotency_key, tres[t])
    /\ tpc' = [tpc EXCEPT ![t] = "emit"]
    /\ UNCHANGED <<policy, telemetry, dispatch_count, tcall, tres, tret>>
    /\ ConcFrame

\* workflow.py:239-240
TReturn(t) ==
    /\ tpc[t] = "emit"
    /\ telemetry' = Event(telemetry, {"tool_called"})
    /\ tret' = [tret EXCEPT ![t] = tres[t]]
    /\ tpc' = [tpc EXCEPT ![t] = "done"]
    /\ UNCHANGED <<policy, idem, dispatch_count, lock, tcall, tres>>
    /\ ConcFrame

NextConc ==
    \E t \in Threads :
        \/ TEnter(t)
        \/ TPolicy(t)
        \/ TAcquire(t)
        \/ TLookup(t)
        \/ TDispatch(t)
        \/ TInsert(t)
        \/ TReturn(t)

SpecConc == InitConc /\ [][NextConc]_vars

-----------------------------------------------------------------------------
(* Plans, steps and the injected collaborators (nodes.py:90-93) *)

Step(id, risk, max_retries, timeout_ms) ==
    [id |-> id, risk |-> risk, max_retries |-> max_retries, timeout_ms |-> timeout_ms]

\* Step.timeout_ms of the plans explored, in ticks of the model's clock
StepTimeout == 1
\* last value of the clock
MaxNow == 2
\* RetryBudget.total_budget of the runs that may retry
TotalBudget == 2
\* longest actions log explored
MaxActions == 3

\* Plan.is_valid (state.py:207-209)
is_valid(p) ==
    p.present /\ Len(p.steps) > 0
    /\ 0 <= p.current_step_idx /\ p.current_step_idx < Len(p.steps)

\* _ensure_plan (nodes.py:100-101)
ensure_plan(p) == is_valid(p)

\* Plan.current (state.py:211-213); Python indexes from 0
current(p) == p.steps[p.current_step_idx + 1]

\* variant of advance that leaves the step pointer on the last step
advance_saturating(p) ==
    [p EXCEPT !.current_step_idx =
        IF @ + 1 >= Len(p.steps) THEN @ ELSE @ + 1]

\* Plan.advance (state.py:215-220): the plan after the call
advance(p) == [p EXCEPT !.current_step_idx = @ + 1]

\* variant of the return value of advance that is true one step late
finished_late(p) == p.current_step_idx > Len(p.steps)

\* variant of the return value of advance that is true one step early
finished_early(p) == p.current_step_idx + 1 >= Len(p.steps)

\* the value advance returns, read on the plan after the call
finished(p) == p.current_step_idx >= Len(p.steps)

\* variant of _step_timeout_exceeded that allows twice the step's timeout
step_timeout_exceeded_twice(p, started, t) ==
    /\ ensure_plan(p)
    /\ started # NoTime
    /\ (t - started) > 2 * current(p).timeout_ms

\* _step_timeout_exceeded (nodes.py:104-109)
step_timeout_exceeded(p, started, t) ==
    /\ ensure_plan(p)
    /\ started # NoTime
    /\ (t - started) > current(p).timeout_ms

\* fingerprint (state.py:111-116): a deterministic digest of the stable JSON
\* of an args dict. A dict is written as the list of its key/value tokens in
\* sorted key order; the digest is taken to be free of collisions.
fingerprint(kv) == <<"fp">> \o kv

\* _toolcall_key (nodes.py:158-160); keys are lists of their ':' separated parts
toolcall_key(rid, step, tool, kv, suffix) ==
    LET base == <<rid, step.id, tool>> \o fingerprint(kv) IN
    IF suffix # "" THEN Append(base, suffix) ELSE base

\* str(x) of an optional string
Str(x) == IF x = NULL THEN "None" ELSE x

\* ActionRecord (state.py:249-264), action_id and the timestamps left out
ActionRecord(call, res, effect) ==
    [tool |-> call.name, args |-> call.args,
     idempotency_key |-> call.idempotency_key,
     ok |-> res.ok, error |-> res.error, effect_fingerprint |-> effect]

\* variant of _record_action that puts the newest record first
record_action_front(acts, rec) == <<rec>> \o acts

\* _record_action (nodes.py:127-151)
record_action(acts, rec) == Append(acts, rec)

\* RetryBudget.can_retry_step (state.py:301-304)
StepCount(r, id) ==
    IF id \in DOMAIN r.step_retry_counts THEN r.step_retry_counts[id] ELSE 0

\* variant of can_retry_step that stops only past the total budget
can_retry_step_over_budget(r, id, step_max) ==
    IF r.used > r.total_budget THEN FALSE ELSE StepCount(r, id) < step_max

\* variant of can_retry_step that leaves the total budget out
can_retry_step_per_step(r, id, step_max) == StepCount(r, id) < step_max

can_retry_step(r, id, step_max) ==
    IF r.used >= r.total_budget THEN FALSE ELSE StepCount(r, id) < step_max

\* RetryBudget.consume (state.py:306-308)
consume(r, id) ==
    [r EXCEPT !.used = @ + 1,
              !.step_retry_counts =
                  [k \in DOMAIN @ \cup {id} |->
                      IF k = id THEN StepCount(r, id) + 1 ELSE @[k]]]

\* variant of set_terminal that leaves telemetry.last_error as it was
set_terminal_keeps_last_error(tel, st, reason, code) ==
    [status |-> st,
     done_reason |-> reason,
     telemetry |-> [events |-> tel.events \cup {"terminal"},
                    last_error |-> tel.last_error,
                    error_code |-> code]]

\* AgentState.set_terminal (state.py:395-400), the fields it writes
set_terminal(tel, st, reason, code) ==
    [status |-> st,
     done_reason |-> reason,
     telemetry |-> [events |-> tel.events \cup {"terminal"},
                    last_error |-> IF st \in {"FAILED", "ESCALATED"} THEN reason ELSE NULL,
                    error_code |-> code]]

Terminal == {"DONE", "FAILED", "ESCALATED"}

-----------------------------------------------------------------------------
(* Routers (edges.py) *)

\* Status (state.py:37-49)
Statuses ==
    {"INIT", "PLANNING", "PERCEIVING", "POLICY_CHECK", "ACTING", "VERIFYING",
     "RECOVERING", "WAITING_APPROVAL", "DONE", "FAILED", "ESCALATED"}

route_from_initialize(st) ==
    IF st \in Terminal THEN "finalize" ELSE "plan"

route_from_plan(st) ==
    IF st \in Terminal THEN "finalize"
    ELSE IF st = "PERCEIVING" THEN "perceive"
    ELSE "recover"

route_from_perceive(st) ==
    IF st \in Terminal THEN "finalize"
    ELSE IF st = "POLICY_CHECK" THEN "policy_check"
    ELSE "recover"

route_from_policy_check(st) ==
    IF st \in Terminal THEN "finalize"
    ELSE IF st = "WAITING_APPROVAL" THEN "waiting_approval"
    ELSE IF st = "ACTING" THEN "act"
    ELSE "recover"

\* variant of the approval router that does not wait for the approval
route_from_waiting_approval_eager(st, appr) ==
    IF st \in Terminal THEN "finalize" ELSE "policy_check"

route_from_waiting_approval(st, appr) ==
    IF st \in Terminal THEN "finalize"
    ELSE IF appr THEN "policy_check"
    ELSE "waiting_approval"

\* variant of route_from_act that replans from any status
route_from_act_replan_any(st, force_replan) ==
    IF st \in Terminal THEN "finalize"
    ELSE IF st = "VERIFYING" THEN "verify"
    ELSE IF force_replan THEN "plan"
    ELSE "recover"

route_from_act(st, force_replan) ==
    IF st \in Terminal THEN "finalize"
    ELSE IF st = "VERIFYING" THEN "verify"
    ELSE IF st = "RECOVERING" /\ force_replan THEN "plan"
    ELSE "recover"

route_from_verify(st, force_replan) ==
    IF st \in Terminal THEN "finalize"
    ELSE IF st = "PERCEIVING" THEN "perceive"
    ELSE IF st = "RECOVERING" /\ force_replan THEN "plan"
    ELSE "recover"

\* variant of the recover router that looks at the replan flag first
route_from_recover_replan_first(st, force_replan) ==
    IF force_replan THEN "plan"
    ELSE IF st \in Terminal THEN "finalize"
    ELSE "perceive"

route_from_recover(st, force_replan) ==
    IF st \in Terminal THEN "finalize"
    ELSE IF st = "PERCEIVING" THEN "perceive"
    ELSE IF force_replan THEN "plan"
    ELSE "perceive"

route_from_finalize(st) == "end"

\* route_by_status (edges.py:179-211)
route_by_status(st) ==
    CASE st \in Terminal -> "finalize"
      [] st = "WAITING_APPROVAL" -> "waiting_approval"
      [] st = "PLANNING" -> "plan"
      [] st = "PERCEIVING" -> "perceive"
      [] st = "POLICY_CHECK" -> "policy_check"
      [] st = "ACTING" -> "act"
      [] st = "VERIFYING" -> "verify"
      [] OTHER -> "recover"

-----------------------------------------------------------------------------
(* Node functions (nodes.py), as functions of the state record *)

\* the run's state as one record: AgentState, the executor's cache, and the
\* observations; res holds the ToolResult of the last executor call
Cur ==
    [run_id |-> run_id, status |-> status, plan |-> plan, perception |-> perception,
     actions |-> actions, policy |-> policy, retry |-> retry,
     telemetry |-> telemetry,
     requires_human_approval |-> requires_human_approval,
     approved |-> approved, last_step_started_ms |-> last_step_started_ms,
     done_reason |-> done_reason, scratch |-> scratch,
     idem |-> idem, count |-> dispatch_count,
     execLog |-> execLog, waited |-> waited, verdict |-> verdict,
     picked |-> NULL,
     res |-> ToolResult(TRUE, NoData, NULL)]

Install(S) ==
    /\ run_id' = S.run_id
    /\ status' = S.status
    /\ plan' = S.plan
    /\ perception' = S.perception
    /\ actions' = S.actions
    /\ policy' = S.policy
    /\ retry' = S.retry
    /\ telemetry' = S.telemetry
    /\ requires_human_approval' = S.requires_human_approval
    /\ approved' = S.approved
    /\ last_step_started_ms' = S.last_step_started_ms
    /\ done_reason' = S.done_reason
    /\ scratch' = S.scratch
    /\ idem' = S.idem
    /\ dispatch_count' = S.count
    /\ execLog' = S.execLog
    /\ waited' = S.waited
    /\ verdict' = S.verdict
    /\ picked' = S.picked

\* A statement sequence "x = e; rest": e is evaluated once and rest(x) goes on
\* with its value
Bind(e, rest(_)) == CHOOSE r \in {rest(x) : x \in {e}} : TRUE

\* executor.call(call) on the run's executor
exec(S, d, call, outcome) ==
    Bind(ExecutorCall(d, World(S.policy, S.idem, S.count, S.telemetry.events),
                      call, outcome),
         LAMBDA c : [S EXCEPT !.policy = c.policy, !.idem = c.idem, !.count = c.count,
                              !.telemetry.events = c.events, !.res = c.res])

emit(S, type) == [S EXCEPT !.telemetry = Event(@, {type})]

\* the last executor call of the node raised
raised(S) == S.res = NotAToolResult

\* _terminal_fail / _terminal_escalate / _terminal_done (nodes.py:112-124)
terminal(S, st, reason, code) ==
    LET t == set_terminal(S.telemetry, st, reason, code) IN
    [S EXCEPT !.status = t.status, !.done_reason = t.done_reason,
              !.telemetry = t.telemetry]

\* _get_executor (workflow.py:269-274): a missing executor is created with
\* an empty cache
get_executor(S) ==
    IF S.scratch.executor THEN S
    ELSE [S EXCEPT !.scratch.executor = TRUE, !.idem = <<>>]

\* variant of ensure_policy_defaults that looks at the denylist only
ensure_policy_defaults_empty_denylist(pol) ==
    IF pol.tool_denylist = {}
    THEN [pol EXCEPT !.tool_denylist = DefaultDenylist,
                     !.require_approval_for_high_risk = TRUE]
    ELSE pol

\* AgentState.ensure_policy_defaults (state.py:389-393)
ensure_policy_defaults(pol) ==
    IF pol.tool_allowlist = {} /\ pol.tool_denylist = {}
    THEN [pol EXCEPT !.tool_denylist = DefaultDenylist,
                     !.require_approval_for_high_risk = TRUE]
    ELSE pol

\* node_initialize (nodes.py:167-176)
node_initialize(S, fresh) ==
    emit([S EXCEPT !.run_id = ensure_run_id(@, fresh),
                   !.policy = ensure_policy_defaults(@),
                   !.status = "PLANNING"], "initialized")

OneStep == <<Step("s1", "LOW", 1, StepTimeout)>>
TwoHigh == <<Step("s1", "HIGH", 1, StepTimeout), Step("s2", "HIGH", 0, StepTimeout)>>
SharedId == <<Step("s1", "MEDIUM", 2, StepTimeout), Step("s1", "LOW", 1, StepTimeout)>>

\* the plans a planner may return
PlannerPlans ==
    [one_step |-> OneStep, two_high |-> TwoHigh, shared_id |-> SharedId]

\* what planner(state) does: returns a plan, returns nothing usable, raises
PlannerOutcomes ==
    {[name |-> n, kind |-> "plan", steps |-> PlannerPlans[n]] : n \in DOMAIN PlannerPlans}
    \cup {[name |-> "empty", kind |-> "empty", steps |-> <<>>],
          [name |-> "raise", kind |-> "raise", steps |-> <<>>]}

\* the outcomes of the planner injected into this run
PlannerOf(d) == {po \in PlannerOutcomes : po.name \in d.planner}

\* variant of node_plan without the status guard
node_plan_any_status(S, t, po) ==
    Bind([S EXCEPT !.picked = po.name], LAMBDA S0 :
    IF po.kind = "raise"
    THEN terminal(emit(S0, "plan_error"), "FAILED", "Planner error", "PLAN_ERROR")
    ELSE IF po.kind = "empty"
    THEN terminal(S0, "FAILED", "Planner returned empty/invalid plan", "PLAN_INVALID")
    ELSE emit([S0 EXCEPT !.plan = [present |-> TRUE, steps |-> po.steps,
                                   current_step_idx |-> 0],
                         !.last_step_started_ms = t,
                         !.status = "PERCEIVING"], "plan_created"))

\* node_plan (nodes.py:179-207)
node_plan(S, t, po) ==
    IF S.status \notin {"PLANNING", "INIT"}
    THEN emit(S, "plan_skipped")
    ELSE
    Bind([S EXCEPT !.picked = po.name], LAMBDA S0 :
    IF po.kind = "raise"
    THEN terminal(emit(S0, "plan_error"), "FAILED", "Planner error", "PLAN_ERROR")
    ELSE IF po.kind = "empty"
    THEN terminal(S0, "FAILED", "Planner returned empty/invalid plan", "PLAN_INVALID")
    ELSE emit([S0 EXCEPT !.plan = [present |-> TRUE, steps |-> po.steps,
                                   current_step_idx |-> 0],
                         !.last_step_started_ms = t,
                         !.status = "PERCEIVING"], "plan_created"))

\* variant of the except clause of node_perceive that ends the run
perceive_error_ends_run(S) ==
    terminal(emit(S, "perceive_error"), "FAILED", "Perceive error", "PERCEIVE_ERROR")

\* the except clause of node_perceive (nodes.py:343-346)
perceive_error(S) == [emit(S, "perceive_error") EXCEPT !.status = "RECOVERING"]

\* what the capture backend may return
CaptureOk == Returns(ToolResult(TRUE, DictData("h1", "b1"), NULL))

CaptureOutcomes ==
    {Returns(ToolResult(TRUE, DictData("h1", "b1"), NULL)),
     Returns(ToolResult(TRUE, DictData(NULL, NULL), NULL)),
     Returns(ToolResult(TRUE, NoData, NULL)),
     Returns(ToolResult(FALSE, NoData, "capture failed"))}

\* what the focus, UI-tree and vision backends may return
AuxOutcomes ==
    {Returns(ToolResult(TRUE, ListData, NULL)),
     Returns(ToolResult(FALSE, NoData, "tool failed"))}

\* the behaviour of the backends behind the remote client in this run:
\* healthy ones answer every call, flaky ones may also fail, broken ones may
\* return None
CaptureOf(d) ==
    CASE d.backend = "flaky" -> CaptureOutcomes
      [] d.backend = "broken" -> {CaptureOk, Returns(NotAToolResult)}
      [] OTHER -> {CaptureOk}
AuxOf(d) ==
    CASE d.backend = "flaky" -> AuxOutcomes
      [] d.backend = "broken" ->
            {Returns(ToolResult(TRUE, ListData, NULL)), Returns(NotAToolResult)}
      [] OTHER -> {Returns(ToolResult(TRUE, ListData, NULL))}

BoolJson(b) == IF b THEN "true" ELSE "false"

\* the snapshot built at nodes.py:274-279
Snapshot(d, data) ==
    [present |-> TRUE,
     screenshot_hash |-> data.hash,
     screenshot_b64 |-> IF d.store_screenshot_b64 THEN data.b64 ELSE NULL,
     has_uia_tree |-> FALSE, has_elements |-> FALSE]

\* variant of the capture test that looks at ok only
capture_unusable_not_ok(d, res) == ~res.ok

\* nodes.py:269: not cap.ok or not isinstance(cap.data, dict)
capture_unusable(d, res) == ~res.ok \/ res.data.kind # "dict"

\* nodes.py:243-254
perceive_focus(S, d, step, fo) ==
    IF S.scratch.focus_hint /\ RegistryHas(d, "focus_window")
    THEN exec(S, d, ToolCall("focus_window", <<"hint", "w">>,
                             toolcall_key(S.run_id, step, "focus_window", <<"hint", "w">>, ""),
                             15000), fo)
    ELSE S

\* variant of the capture call whose key tells a retry from the first attempt
perceive_capture_per_attempt(S, d, step, co) ==
    LET kv == <<"return_b64", BoolJson(d.store_screenshot_b64)>> IN
    exec(S, d, ToolCall("screen_capture", kv,
                        toolcall_key(S.run_id, step, "screen_capture", kv,
                                     IF S.retry.used = 0 THEN "" ELSE "retry"),
                        30000), co)

\* nodes.py:260-268
perceive_capture(S, d, step, co) ==
    LET kv == <<"return_b64", BoolJson(d.store_screenshot_b64)>> IN
    exec(S, d, ToolCall("screen_capture", kv,
                        toolcall_key(S.run_id, step, "screen_capture", kv, ""), 30000), co)

\* nodes.py:281-293
perceive_uia(S, d, step, snap, uo) ==
    IF RegistryHas(d, "uia_tree")
    THEN exec(S, d, ToolCall("uia_tree", <<"scope", "focused_window">>,
                             toolcall_key(S.run_id, step, "uia_tree",
                                          <<"scope", "focused_window">>,
                                          Str(snap.screenshot_hash)),
                             30000), uo)
    ELSE [S EXCEPT !.res = ToolResult(FALSE, NoData, NULL)]

\* nodes.py:295-330
perceive_omni(S, d, step, snap, oo) ==
    IF S.scratch.need_vision /\ RegistryHas(d, "omniparser_v2_parse")
    THEN Bind(exec(S, d,
                   ToolCall("omniparser_v2_parse",
                            <<"image_b64", snap.screenshot_b64,
                              "image_hash", snap.screenshot_hash, "step", step.id>>,
                            toolcall_key(S.run_id, step, "omniparser_v2_parse",
                                         <<"image_hash", snap.screenshot_hash,
                                           "step_id", step.id>>, ""),
                            60000), oo),
              LAMBDA r : IF r.res.ok \/ raised(r) THEN r
                         ELSE emit(r, "omniparser_failed"))
    ELSE [S EXCEPT !.res = ToolResult(FALSE, NoData, NULL)]

\* node_perceive (nodes.py:210-348)
node_perceive(S, d, t, fo, co, uo, oo) ==
    IF ~ensure_plan(S.plan)
    THEN terminal(S, "FAILED", "Perceive called without a valid plan", "NO_PLAN")
    ELSE IF step_timeout_exceeded(S.plan, S.last_step_started_ms, t)
    THEN terminal(S, "FAILED", "Step timeout exceeded (perceive)", "STEP_TIMEOUT")
    ELSE
    LET step == current(S.plan) IN
    Bind(perceive_focus(S, d, step, fo), LAMBDA S1 :
    IF raised(S1) THEN perceive_error(S1)
    ELSE IF ~RegistryHas(d, "screen_capture")
    THEN terminal(S1, "FAILED", "Missing required tool alias", "TOOL_MISSING")
    ELSE
    Bind(perceive_capture(S1, d, step, co), LAMBDA S2 :
    IF raised(S2) THEN perceive_error(S2)
    ELSE IF capture_unusable(d, S2.res)
    THEN [emit(S2, "perceive_capture_failed") EXCEPT !.status = "RECOVERING"]
    ELSE
    LET snap0 == Snapshot(d, S2.res.data) IN
    Bind(perceive_uia(S2, d, step, snap0, uo), LAMBDA S3 :
    IF raised(S3) THEN perceive_error(S3)
    ELSE
    LET snap1 == [snap0 EXCEPT !.has_uia_tree = S3.res.ok] IN
    Bind(perceive_omni(S3, d, step, snap1, oo), LAMBDA S4 :
    IF raised(S4) THEN perceive_error(S4)
    ELSE
    LET snap2 == [snap1 EXCEPT !.has_elements = S4.res.ok] IN
    emit([S4 EXCEPT !.perception = snap2, !.status = "POLICY_CHECK"], "perceived")))))

\* variant of the approval gate that closes only once approval was asked for
gate_closed_if_pending(S, step) ==
    /\ S.policy.require_approval_for_high_risk
    /\ step.risk = "HIGH"
    /\ S.requires_human_approval
    /\ ~S.approved

\* nodes.py:359-360: the step has to wait for approval
gate_closed(S, step) ==
    /\ S.policy.require_approval_for_high_risk
    /\ step.risk = "HIGH"
    /\ ~S.approved

\* node_policy_check (nodes.py:351-373)
node_policy_check(S) ==
    IF ~ensure_plan(S.plan)
    THEN terminal(S, "FAILED", "Policy check called without a valid plan", "NO_PLAN")
    ELSE IF gate_closed(S, current(S.plan))
    THEN emit([S EXCEPT !.requires_human_approval = TRUE,
                        !.status = "WAITING_APPROVAL",
                        !.policy.last_decision = "REQUIRE_APPROVAL",
                        !.waited = @ \cup {S.plan.current_step_idx}],
              "approval_required")
    ELSE emit([S EXCEPT !.requires_human_approval = FALSE,
                        !.policy.last_decision = "ALLOW",
                        !.status = "ACTING"], "policy_allowed")

\* what a mouse, keyboard or local backend may return
ActionOutcomes ==
    {Returns(ToolResult(TRUE, NoData, NULL)),
     Returns(ToolResult(FALSE, NoData, "tool failed")),
     Returns(ToolResult(FALSE, NoData, "POLICY_DENY: runtime"))}

\* what the capture backend may return to the capture after an action
PostOutcomes ==
    {Returns(ToolResult(TRUE, DictData("h2", NULL), NULL)),
     Returns(ToolResult(FALSE, NoData, "capture failed"))}

ActionOf(d) ==
    CASE d.backend = "flaky" -> ActionOutcomes
      [] d.backend = "broken" ->
            {Returns(ToolResult(TRUE, NoData, NULL)), Returns(NotAToolResult)}
      [] OTHER -> {Returns(ToolResult(TRUE, NoData, NULL))}
PostOf(d) ==
    CASE d.backend = "flaky" -> PostOutcomes
      [] d.backend = "broken" ->
            {Returns(ToolResult(TRUE, DictData("h2", NULL), NULL)),
             Returns(NotAToolResult)}
      [] OTHER -> {Returns(ToolResult(TRUE, DictData("h2", NULL), NULL))}

\* build_click_from_bbox, build_type (nodes.py:582-606) and a call of a tool
\* outside the alias vocabulary
ClickCall(step) ==
    ToolCall("click", <<"x", "10", "y", "20">>,
             toolcall_key(RUN_ID, step, "click", <<"x", "10", "y", "20">>, ""), 15000)
TypeCall(step) ==
    ToolCall("type_text", <<"text", "hi">>,
             toolcall_key(RUN_ID, step, "type_text", <<"text", "hi">>, ""), 30000)
DeleteCall(step) ==
    ToolCall("file_delete", <<"path", "f">>,
             toolcall_key(RUN_ID, step, "file_delete", <<"path", "f">>, ""), 30000)
WaitCall(step) ==
    ToolCall("wait", <<"ms", "250">>,
             toolcall_key(RUN_ID, step, "wait", <<"ms", "250">>, ""), 30000)

\* what action_selector(state, tooling) does: returns a list of calls or raises
SelectorOutcomes(step) ==
    {[name |-> "none", kind |-> "calls", calls |-> <<>>],
     [name |-> "click", kind |-> "calls", calls |-> <<ClickCall(step)>>],
     [name |-> "click_type", kind |-> "calls",
      calls |-> <<ClickCall(step), TypeCall(step)>>],
     [name |-> "delete", kind |-> "calls", calls |-> <<DeleteCall(step)>>],
     [name |-> "raise", kind |-> "raise", calls |-> <<>>]}

\* the outcomes of the action selector injected into this run
SelectorOf(d, step) == {o \in SelectorOutcomes(step) : o.name \in d.selector}

\* nodes.py:411-423: the capture after an action and the hash it yields
PostCapture(S, d, call, co) ==
    IF RegistryHas(d, "screen_capture")
    THEN exec(S, d, ToolCall("screen_capture", <<"return_b64", "false">>,
                             Append(call.idempotency_key, "postcap"), 20000), co)
    ELSE [S EXCEPT !.res = ToolResult(FALSE, NoData, NULL)]

\* variant of the effect fingerprint that drops the hash of the capture
EffectOfNone(res) == NULL

\* nodes.py:422-423
EffectOf(res) == IF res.ok /\ res.data.kind = "dict" THEN res.data.hash ELSE NULL

\* variant of the loop exit of node_act that goes on after a plain failure
act_stops_on_denial(res) == ~res.ok /\ IsPolicyDeny(res.error)

\* nodes.py:437: the result that ends the loop of node_act
act_stops(res) == ~res.ok

\* the loop of node_act (nodes.py:406-444); outs[i] is what the backends do
\* when call i and its capture reach them. The loop ends "completed", or at
\* the first failure with "deny" or "fail", or with "raise" when an executor
\* call raised.
RECURSIVE ActLoop(_, _, _, _, _)
ActLoop(S, d, calls, outs, i) ==
    IF i > Len(calls) THEN [S EXCEPT !.res = ToolResult(TRUE, NoData, "completed")]
    ELSE
    LET call == calls[i] IN
    Bind([exec(S, d, call, outs[i].act) EXCEPT
              !.execLog = Append(@, call.idempotency_key)], LAMBDA S1 :
    IF raised(S1) THEN [S1 EXCEPT !.res = ToolResult(FALSE, NoData, "raise")]
    ELSE
    Bind(PostCapture(S1, d, call, outs[i].cap), LAMBDA S2 :
    IF raised(S2) THEN [S2 EXCEPT !.res = ToolResult(FALSE, NoData, "raise")]
    ELSE
    Bind([S2 EXCEPT !.actions =
              record_action(@, ActionRecord(call, S1.res, EffectOf(S2.res)))], LAMBDA S3 :
    IF act_stops(S1.res)
    THEN [S3 EXCEPT !.res = ToolResult(FALSE, NoData,
                                IF IsPolicyDeny(S1.res.error) THEN "deny" ELSE "fail")]
    ELSE ActLoop(S3, d, calls, outs, i + 1))))

\* variant of the empty-list test that never holds
no_calls_never(calls) == FALSE

\* nodes.py:401: not calls
no_calls(calls) == calls = <<>>

\* node_act (nodes.py:376-454)
node_act(S, d, t, sel, outs) ==
    IF ~ensure_plan(S.plan)
    THEN terminal(S, "FAILED", "Act called without a valid plan", "NO_PLAN")
    ELSE IF ~S.perception.present
    THEN [emit(S, "act_missing_perception") EXCEPT !.status = "RECOVERING"]
    ELSE IF step_timeout_exceeded(S.plan, S.last_step_started_ms, t)
    THEN terminal(S, "FAILED", "Step timeout exceeded (act)", "STEP_TIMEOUT")
    ELSE
    Bind([S EXCEPT !.picked = sel.name], LAMBDA S0 :
    IF sel.kind = "raise"
    THEN [emit(S0, "act_error") EXCEPT !.status = "RECOVERING"]
    ELSE IF no_calls(sel.calls)
    THEN [emit(S0, "no_actions_selected") EXCEPT !.status = "RECOVERING"]
    ELSE
    Bind(ActLoop(S0, d, sel.calls, outs, 1), LAMBDA L :
    CASE L.res.error = "deny" ->
            terminal(emit(L, "policy_denied_runtime"), "ESCALATED",
                     "Policy denied tool at runtime", "POLICY_DENY")
      [] L.res.error = "fail" ->
            [emit(L, "action_failed") EXCEPT !.status = "RECOVERING"]
      [] L.res.error = "raise" ->
            [emit(L, "act_error") EXCEPT !.status = "RECOVERING"]
      [] OTHER ->
            emit([L EXCEPT !.status = "VERIFYING"], "actions_completed")))

\* what verifier(state, tooling) does
VerifierOutcomes == {"ok", "not_ok", "raise"}

\* the outcomes of the verifier injected into this run
VerifierOf(d) == VerifierOutcomes \cap d.verifier

\* node_verify (nodes.py:457-488)
node_verify(S, t, v) ==
    IF ~ensure_plan(S.plan)
    THEN terminal([S EXCEPT !.verdict = NULL], "FAILED",
                  "Verify called without a valid plan", "NO_PLAN")
    ELSE IF ~S.perception.present
    THEN [S EXCEPT !.status = "RECOVERING", !.verdict = NULL]
    ELSE IF step_timeout_exceeded(S.plan, S.last_step_started_ms, t)
    THEN terminal([S EXCEPT !.verdict = NULL], "FAILED",
                  "Step timeout exceeded (verify)", "STEP_TIMEOUT")
    ELSE IF v = "raise"
    THEN [emit(S, "verify_error") EXCEPT !.status = "RECOVERING", !.verdict = v]
    ELSE
    LET S1 == emit([S EXCEPT !.scratch.verify_details = "details", !.verdict = v],
                   "step_verified")
    IN
    IF v = "ok"
    THEN LET S2 == [S1 EXCEPT !.plan = advance(@)] IN
         IF finished(S2.plan)
         THEN terminal(S2, "DONE", "All steps completed", "DONE")
         ELSE [S2 EXCEPT !.last_step_started_ms = t, !.status = "PERCEIVING"]
    ELSE [S1 EXCEPT !.status = "RECOVERING"]

\* what recovery(state, tooling) does: returns calls, possibly after asking
\* for a replan through scratch.force_replan, or raises
RecoveryOutcomes(step) ==
    {[name |-> "none", kind |-> "calls", calls |-> <<>>, replan |-> FALSE],
     [name |-> "wait", kind |-> "calls", calls |-> <<WaitCall(step)>>, replan |-> FALSE],
     [name |-> "wait_replan", kind |-> "calls", calls |-> <<WaitCall(step)>>,
      replan |-> TRUE],
     [name |-> "delete", kind |-> "calls", calls |-> <<DeleteCall(step)>>,
      replan |-> FALSE],
     [name |-> "click_wait", kind |-> "calls",
      calls |-> <<ClickCall(step), WaitCall(step)>>, replan |-> FALSE],
     [name |-> "raise", kind |-> "raise", calls |-> <<>>, replan |-> FALSE]}

\* the outcomes of the recovery function injected into this run
RecoveryOf(d, step) == {o \in RecoveryOutcomes(step) : o.name \in d.recovery}

\* variant of the loop exit of node_recover that stops at every failure
recover_stops_on_failure(res) == ~res.ok

\* nodes.py:541: the result that ends the loop of node_recover
recover_stops(res) == ~res.ok /\ IsPolicyDeny(res.error)

\* the loop of node_recover (nodes.py:524-542)
RECURSIVE RecoverLoop(_, _, _, _, _)
RecoverLoop(S, d, calls, outs, i) ==
    IF i > Len(calls) THEN [S EXCEPT !.res = ToolResult(TRUE, NoData, "completed")]
    ELSE
    LET call == calls[i] IN
    Bind([exec(S, d, call, outs[i].act) EXCEPT
              !.execLog = Append(@, call.idempotency_key)], LAMBDA S1 :
    IF raised(S1) THEN [S1 EXCEPT !.res = ToolResult(FALSE, NoData, "raise")]
    ELSE
    Bind([S1 EXCEPT !.actions = record_action(@, ActionRecord(call, S1.res, NULL))],
         LAMBDA S2 :
    IF recover_stops(S1.res)
    THEN [S2 EXCEPT !.res = ToolResult(FALSE, NoData, "deny")]
    ELSE RecoverLoop(S2, d, calls, outs, i + 1)))

\* node_recover (nodes.py:491-550)
node_recover(S, d, rec, outs) ==
    IF ~ensure_plan(S.plan)
    THEN terminal(S, "FAILED", "Recover called without a valid plan", "NO_PLAN")
    ELSE
    LET step == current(S.plan) IN
    IF ~can_retry_step(S.retry, step.id, step.max_retries)
    THEN terminal(emit(S, "retry_exhausted"), "FAILED",
                  "Retry exhausted for step", "RETRY_EXHAUSTED")
    ELSE
    LET S1 == emit([S EXCEPT !.retry = consume(@, step.id), !.picked = rec.name],
                   "recover_attempt") IN
    IF rec.kind = "raise"
    THEN terminal(emit(S1, "recover_error"), "FAILED", "Recovery error", "RECOVERY_ERROR")
    ELSE
    LET S2 == [S1 EXCEPT !.scratch.force_replan = @ \/ rec.replan] IN
    Bind(RecoverLoop(S2, d, rec.calls, outs, 1), LAMBDA L :
    IF L.res.error = "deny"
    THEN terminal(L, "ESCALATED", "Policy denied recovery tool", "POLICY_DENY")
    ELSE IF L.res.error = "raise"
    THEN terminal(emit(L, "recover_error"), "FAILED", "Recovery error", "RECOVERY_ERROR")
    ELSE [L EXCEPT !.status = "PERCEIVING"])

\* node_waiting_approval (nodes.py:553-560)
\* variant of node_waiting_approval that restarts the step's clock
node_waiting_approval_restarts(S) ==
    emit([S EXCEPT !.status = "WAITING_APPROVAL",
                   !.last_step_started_ms = now,
                   !.waited = IF ensure_plan(S.plan)
                              THEN @ \cup {S.plan.current_step_idx} ELSE @],
         "waiting_approval")

node_waiting_approval(S) ==
    emit([S EXCEPT !.status = "WAITING_APPROVAL",
                   !.waited = IF ensure_plan(S.plan)
                              THEN @ \cup {S.plan.current_step_idx} ELSE @],
         "waiting_approval")

\* variant of _finalize that leaves the executor in scratch
node_finalize_keeps_executor(S) == emit(S, "finalize")

\* build_workflow._finalize (workflow.py:325-328) around node_finalize
\* (nodes.py:563-575)
node_finalize(S) == emit([S EXCEPT !.scratch.executor = FALSE], "finalize")

-----------------------------------------------------------------------------
(* Spec: the wired workflow (workflow.py:281-389), one action per node *)

\* The collaborators injected into a run (RuntimeDeps.planner,
\* action_selector, verifier, recovery, mcp_client): each is given by the
\* outcomes it may produce in this run; ticks says whether the run lasts long
\* enough for the clock to move.
Env(planner, selector, verifier, recovery, backend, ticks) ==
    [planner |-> planner, selector |-> selector, verifier |-> verifier,
     recovery |-> recovery, backend |-> backend, ticks |-> ticks]

WiredDeps(b64, env) ==
    [local_tools |-> LocalTools, mcp_aliases |-> McpAliases,
     mcp_configured |-> TRUE, store_screenshot_b64 |-> b64,
     planner |-> env.planner, selector |-> env.selector,
     verifier |-> env.verifier, recovery |-> env.recovery,
     backend |-> env.backend, ticks |-> env.ticks]

AllSelectors == {"none", "click", "click_type", "delete", "raise"}
AllRecoveries == {"none", "wait", "wait_replan", "delete", "click_wait", "raise"}

\* the runs explored: the policy, budget and scratch hints the runner puts in
\* the AgentState, the payload strategy and the collaborators of the deps
RunConfig(pol, budget, focus, vision, b64, env) ==
    [policy |-> pol, total_budget |-> budget, focus_hint |-> focus,
     need_vision |-> vision, store_screenshot_b64 |-> b64, env |-> env]

RunConfigs ==
    {\* one LOW step, every collaborator free, flaky backends
     RunConfig(PolicyContext({}, {}, TRUE), TotalBudget, FALSE, FALSE, FALSE,
               Env({"one_step", "empty", "raise"}, AllSelectors, VerifierOutcomes,
                   AllRecoveries, "flaky", FALSE)),
     \* full perception with the image kept in the snapshot
     RunConfig(PolicyContext({}, {}, TRUE), TotalBudget, TRUE, TRUE, TRUE,
               Env({"one_step"}, {"click"}, {"ok", "not_ok"}, {"none"}, "flaky", FALSE)),
     \* two HIGH-risk steps behind the approval gate, and without the gate
     RunConfig(PolicyContext({}, {}, TRUE), TotalBudget, FALSE, FALSE, FALSE,
               Env({"two_high"}, {"click"}, VerifierOutcomes, {"wait"}, "healthy", FALSE)),
     RunConfig(PolicyContext({}, {"type_text"}, FALSE), TotalBudget, FALSE, FALSE, FALSE,
               Env({"two_high"}, {"click", "click_type"}, {"ok", "not_ok"}, {"none"},
                   "healthy", FALSE)),
     \* two steps that share an id
     RunConfig(PolicyContext({}, {}, TRUE), TotalBudget, FALSE, FALSE, FALSE,
               Env({"shared_id"}, {"click"}, {"ok", "not_ok"}, {"none"}, "healthy", FALSE)),
     \* a slow run: the clock moves
     RunConfig(PolicyContext({}, {}, TRUE), TotalBudget, FALSE, FALSE, FALSE,
               Env({"one_step", "two_high"}, {"click"}, {"ok", "not_ok"}, {"none"},
                   "healthy", TRUE)),
     \* allowlists
     RunConfig(PolicyContext({"screen_capture"}, {}, TRUE), TotalBudget, FALSE, TRUE, FALSE,
               Env({"one_step"}, {"click", "none"}, {"ok"}, {"wait"}, "healthy", FALSE)),
     RunConfig(PolicyContext({"wait"}, {}, TRUE), TotalBudget, FALSE, TRUE, FALSE,
               Env({"one_step"}, {"click"}, {"ok"}, {"wait"}, "healthy", FALSE)),
     \* no retry budget
     RunConfig(PolicyContext({}, {}, TRUE), 0, FALSE, FALSE, FALSE,
               Env({"one_step"}, {"click", "none"}, {"ok", "not_ok"}, {"wait"},
                   "healthy", FALSE)),
     \* a verifier that passes every step, over backends that may fail
     RunConfig(PolicyContext({}, {}, TRUE), TotalBudget, FALSE, FALSE, FALSE,
               Env({"one_step"}, {"click"}, {"ok"}, {"wait"}, "flaky", FALSE)),
     \* a verifier that rejects every step: ample, scarce and no budget
     RunConfig(PolicyContext({}, {}, TRUE), TotalBudget, FALSE, FALSE, FALSE,
               Env({"one_step", "two_high"}, {"click"}, {"not_ok"}, {"wait"},
                   "healthy", FALSE)),
     RunConfig(PolicyContext({}, {}, TRUE), 1, FALSE, FALSE, FALSE,
               Env({"shared_id"}, {"click"}, {"not_ok"}, {"wait"}, "healthy", FALSE)),
     RunConfig(PolicyContext({}, {}, TRUE), 0, FALSE, FALSE, FALSE,
               Env({"one_step"}, {"click"}, {"not_ok"}, {"wait"}, "healthy", FALSE)),
     \* two steps without the approval gate over backends that may fail
     RunConfig(PolicyContext({}, {"type_text"}, FALSE), TotalBudget, FALSE, FALSE, FALSE,
               Env({"two_high"}, {"click"}, {"ok"}, {"none"}, "flaky", FALSE)),
     \* the happy run: every backend answers, the verifier passes the step
     RunConfig(PolicyContext({}, {}, TRUE), TotalBudget, TRUE, TRUE, FALSE,
               Env({"one_step"}, {"click"}, {"ok"}, {"none"}, "healthy", TRUE))}

Init ==
    /\ FreshState
    /\ OneRun
    /\ run_id = RUN_ID
    /\ IdleThreads
    /\ node = "initialize"
    /\ prev = "none"
    /\ \E c \in RunConfigs :
        /\ policy = c.policy
        /\ retry = RetryBudget(c.total_budget)
        /\ scratch = [Scratch0 EXCEPT !.focus_hint = c.focus_hint,
                                      !.need_vision = c.need_vision]
        /\ deps = WiredDeps(c.store_screenshot_b64, c.env)

Frame == UNCHANGED <<deps, now, callLog, threadVars, other>>

OutPairs(d) == [act : ActionOf(d), cap : PostOf(d)]

Initialize ==
    /\ node = "initialize"
    /\ \E fresh \in NewRunIds : \E S \in {node_initialize(Cur, fresh)} : Install(S)
    /\ node' = "plan"
    /\ prev' = "initialize"
    /\ Frame

PlanNode ==
    /\ node = "plan"
    /\ \E po \in PlannerOf(deps), S0 \in {Cur} :
        \E S \in {node_plan(S0, now, po)} : Install(S)
    /\ node' = "perceive"
    /\ prev' = "plan"
    /\ Frame

Perceive ==
    /\ node = "perceive"
    /\ \E fo \in AuxOf(deps), co \in CaptureOf(deps),
          uo \in AuxOf(deps), oo \in AuxOf(deps) :
        \E S0 \in {get_executor(Cur)} :
        \E S \in {node_perceive(S0, deps, now, fo, co, uo, oo)} :
            /\ Install(S)
            /\ node' = route_from_perceive(S.status)
    /\ prev' = "perceive"
    /\ Frame

PolicyCheck ==
    /\ node = "policy_check"
    /\ \E S0 \in {Cur} : \E S \in {node_policy_check(S0)} :
        /\ Install(S)
        /\ node' = route_from_policy_check(S.status)
    /\ prev' = "policy_check"
    /\ Frame

WaitingApproval ==
    /\ node = "waiting_approval"
    /\ \E S0 \in {Cur} : \E S \in {node_waiting_approval(S0)} :
        /\ Install(S)
        /\ node' = route_from_waiting_approval(S.status, S.approved)
    /\ prev' = "waiting_approval"
    /\ Frame

Act ==
    /\ node = "act"
    /\ \E sel \in SelectorOf(deps, IF ensure_plan(plan) THEN current(plan)
                                   ELSE Step("none", "LOW", 0, StepTimeout)) :
        \E outs \in [1..Len(sel.calls) -> OutPairs(deps)] :
            \E S0 \in {get_executor(Cur)} :
            \E S \in {node_act(S0, deps, now, sel, outs)} :
                /\ Len(S.actions) <= MaxActions
                /\ Install(S)
                /\ node' = route_from_act(S.status, S.scratch.force_replan)
    /\ prev' = "act"
    /\ Frame

Verify ==
    /\ node = "verify"
    /\ \E v \in VerifierOf(deps) :
        \E S0 \in {Cur} : \E S \in {node_verify(S0, now, v)} :
            /\ Install(S)
            /\ node' = route_from_verify(S.status, S.scratch.force_replan)
    /\ prev' = "verify"
    /\ Frame

Recover ==
    /\ node = "recover"
    /\ \E rec \in RecoveryOf(deps, IF ensure_plan(plan) THEN current(plan)
                                   ELSE Step("none", "LOW", 0, StepTimeout)) :
        \E outs \in [1..Len(rec.calls) -> OutPairs(deps)] :
            \E S0 \in {get_executor(Cur)} :
            \E S \in {node_recover(S0, deps, rec, outs)} :
                /\ Len(S.actions) <= MaxActions
                /\ Install(S)
                /\ node' = route_from_recover(S.status, S.scratch.force_replan)
    /\ prev' = "recover"
    /\ Frame

Finalize ==
    /\ node = "finalize"
    /\ \E S \in {node_finalize(Cur)} : Install(S)
    /\ node' = "end"
    /\ prev' = "finalize"
    /\ Frame

\* the host approves while the run waits (nodes.py:553-560, edges.py:106-119)
HostApprove ==
    /\ node = "waiting_approval"
    /\ status = "WAITING_APPROVAL"
    /\ ~approved
    /\ approved' = TRUE
    /\ UNCHANGED <<run_id, status, plan, perception, actions, policy, retry, telemetry,
                   requires_human_approval, last_step_started_ms, done_reason,
                   scratch, node, prev, execLog, waited, verdict, picked, idem,
                   dispatch_count, other>>
    /\ Frame

\* the wall clock read by now_ms() moves on; only the nodes that read the
\* clock can tell when it moved, so it moves right before one of them runs
Tick ==
    /\ deps.ticks
    /\ node \in {"plan", "perceive", "act", "verify"}
    /\ now < MaxNow
    /\ now' = now + 1
    /\ UNCHANGED <<stateVars, node, prev, execLog, waited, verdict, picked, deps, idem,
                   dispatch_count, callLog, threadVars, other>>

Next ==
    \/ Initialize
    \/ PlanNode
    \/ Perceive
    \/ PolicyCheck
    \/ WaitingApproval
    \/ Act
    \/ Verify
    \/ Recover
    \/ Finalize
    \/ HostApprove
    \/ Tick

Spec == Init /\ [][Next]_vars

-----------------------------------------------------------------------------
(* SpecFault: the workflow over collaborators that raise and backends that *)
(* break the ToolResult contract                                           *)

InitFault ==
    /\ FreshState
    /\ OneRun
    /\ run_id = RUN_ID
    /\ IdleThreads
    /\ node = "initialize"
    /\ prev = "none"
    /\ policy = PolicyContext({}, {}, TRUE)
    /\ retry = RetryBudget(TotalBudget)
    /\ scratch = [Scratch0 EXCEPT !.focus_hint = TRUE, !.need_vision = TRUE]
    /\ deps = WiredDeps(FALSE, Env({"one_step", "raise"}, {"click", "raise"},
                                   {"ok", "raise"}, {"wait", "raise"},
                                   "broken", FALSE))

NextFault ==
    \/ Initialize
    \/ PlanNode
    \/ Perceive
    \/ PolicyCheck
    \/ Act
    \/ Verify
    \/ Recover
    \/ Finalize

SpecFault == InitFault /\ [][NextFault]_vars

-----------------------------------------------------------------------------
(* SpecInit: node_initialize on the AgentState records a runner may build *)

InitPolicies ==
    {PolicyContext(allow, deny, req) :
        allow \in {{}, {"click"}, {"click", "wait"}},
        deny \in {{}, {"click"}, DefaultDenylist},
        req \in BOOLEAN}

InitInit ==
    /\ FreshState
    /\ OneRun
    /\ IdleThreads
    /\ node = "initialize"
    /\ prev = "none"
    /\ run_id \in {"", RUN_ID, "run_77"}
    /\ policy \in InitPolicies
    /\ retry = RetryBudget(TotalBudget)
    /\ scratch = Scratch0
    /\ deps = WiredDeps(FALSE, Env({"one_step"}, {"click"}, {"ok"}, {"none"},
                                   "healthy", FALSE))

SpecInit == InitInit /\ [][Initialize]_vars

-----------------------------------------------------------------------------
(* SpecRuns: two runs of one compiled graph, each on its own AgentState,   *)
(* the host interleaving their node executions                             *)

\* the longest run followed node by node
MaxNodes == 40

\* variant in which the runs find one executor, whatever state they pass
ExecutorOfShared(R, cache) == cache

\* _get_executor (workflow.py:269-274) reads the executor from the scratch of
\* the state it is given; its _idem was made for it (workflow.py:178-183)
ExecutorOf(R, cache) == R.idem

\* a run between two nodes: its state, executor and graph position
Between(S, nd, pv) == S @@ [node |-> nd, prev |-> pv]

\* AgentState(run_id, goal, policy = pol, scratch = scr) before its first node
StartOf(pol, scr) ==
    Between([run_id |-> RUN_ID, status |-> "INIT", plan |-> NoPlan,
             perception |-> NoPerception, actions |-> <<>>, policy |-> pol,
             retry |-> RetryBudget(TotalBudget), telemetry |-> Telemetry0,
             requires_human_approval |-> FALSE, approved |-> FALSE,
             last_step_started_ms |-> NoTime, done_reason |-> NULL,
             scratch |-> scr, idem |-> <<>>, count |-> <<>>, execLog |-> <<>>,
             waited |-> {}, verdict |-> NULL, picked |-> NULL,
             res |-> ToolResult(TRUE, NoData, NULL)],
            "initialize", "none")

\* the first run waits for approval of its high-risk steps, the second has a
\* focus hint and no approval gate
StartA == StartOf(PolicyContext({}, {}, TRUE), Scratch0)
StartB == StartOf(PolicyContext({}, {"type_text"}, FALSE),
                  [Scratch0 EXCEPT !.focus_hint = TRUE])

RunsDeps ==
    WiredDeps(FALSE, Env({"two_high"}, {"click"}, {"ok"}, {"none"}, "healthy", FALSE))

InitRuns ==
    /\ FreshState
    /\ IdleThreads
    /\ run_id = StartA.run_id
    /\ policy = StartA.policy
    /\ retry = StartA.retry
    /\ scratch = StartA.scratch
    /\ node = StartA.node
    /\ prev = StartA.prev
    /\ deps = RunsDeps
    /\ other = StartB

\* the host leaves the running graph between two nodes and drives the other
\* one; the tools' backends are the same for both
Switch ==
    /\ other # NoRun
    /\ Install([other EXCEPT !.idem = ExecutorOf(other, idem),
                              !.count = dispatch_count])
    /\ node' = other.node
    /\ prev' = other.prev
    /\ other' = Between(Cur, node, prev)
    /\ UNCHANGED <<deps, now, callLog, threadVars>>

NextRuns ==
    \/ Initialize
    \/ PlanNode
    \/ Perceive
    \/ PolicyCheck
    \/ WaitingApproval
    \/ HostApprove
    \/ Act
    \/ Verify
    \/ Finalize
    \/ Switch

SpecRuns == InitRuns /\ [][NextRuns]_vars

\* the one element of a set of one
Only(S) == CHOOSE x \in S : TRUE

\* the node at R.node run on R, with collaborators and tools that have one
\* answer each, and the host approving as soon as the run waits
AloneStep(R, d, t) ==
    LET S == [R EXCEPT !.picked = NULL, !.res = ToolResult(TRUE, NoData, NULL)]
        Moved(S1, nd) == [S1 EXCEPT !.node = nd, !.prev = R.node]
        step == IF ensure_plan(S.plan) THEN current(S.plan)
                ELSE Step("none", "LOW", 0, StepTimeout)
    IN
    CASE R.node = "initialize" ->
            Moved(node_initialize(S, Only(NewRunIds)), "plan")
      [] R.node = "plan" ->
            Moved(node_plan(S, t, Only(PlannerOf(d))), "perceive")
      [] R.node = "perceive" ->
            Bind(node_perceive(get_executor(S), d, t, Only(AuxOf(d)),
                               Only(CaptureOf(d)), Only(AuxOf(d)), Only(AuxOf(d))),
                 LAMBDA S1 : Moved(S1, route_from_perceive(S1.status)))
      [] R.node = "policy_check" ->
            Bind(node_policy_check(S),
                 LAMBDA S1 : Moved(S1, route_from_policy_check(S1.status)))
      [] R.node = "waiting_approval" ->
            Bind(node_waiting_approval([S EXCEPT !.approved = TRUE]),
                 LAMBDA S1 : Moved(S1, route_from_waiting_approval(S1.status,
                                                                   S1.approved)))
      [] R.node = "act" ->
            Bind(Only(SelectorOf(d, step)), LAMBDA sel :
            Bind(node_act(get_executor(S), d, t, sel,
                          Only([1..Len(sel.calls) -> OutPairs(d)])),
                 LAMBDA S1 : Moved(S1, route_from_act(S1.status,
                                                      S1.scratch.force_replan))))
      [] R.node = "verify" ->
            Bind(node_verify(S, t, Only(VerifierOf(d))),
                 LAMBDA S1 : Moved(S1, route_from_verify(S1.status,
                                                         S1.scratch.force_replan)))
      [] R.node = "recover" ->
            Bind(Only(RecoveryOf(d, step)), LAMBDA rec :
            Bind(node_recover(get_executor(S), d, rec,
                              Only([1..Len(rec.calls) -> OutPairs(d)])),
                 LAMBDA S1 : Moved(S1, route_from_recover(S1.status,
                                                          S1.scratch.force_replan))))
      [] R.node = "finalize" -> Moved(node_finalize(S), "end")
      [] OTHER -> R

RECURSIVE RunAlone(_, _, _, _)
\* graph.invoke(state) on its own: the nodes run from R until the end marker
RunAlone(R, d, t, fuel) ==
    IF R.node = "end" \/ fuel = 0 THEN R
    ELSE RunAlone(AloneStep(R, d, t), d, t, fuel - 1)

-----------------------------------------------------------------------------
(* SpecRoute: the routing functions of edges.py called on an AgentState *)

Routers ==
    {"route_from_initialize", "route_from_plan", "route_from_perceive",
     "route_from_policy_check", "route_from_waiting_approval", "route_from_act",
     "route_from_verify", "route_from_recover", "route_from_finalize",
     "route_by_status"}

\* what router r returns on a state with this status, approved and
\* scratch["force_replan"]
RouterAnswer(r, st, appr, fr) ==
    CASE r = "route_from_initialize" -> route_from_initialize(st)
      [] r = "route_from_plan" -> route_from_plan(st)
      [] r = "route_from_perceive" -> route_from_perceive(st)
      [] r = "route_from_policy_check" -> route_from_policy_check(st)
      [] r = "route_from_waiting_approval" -> route_from_waiting_approval(st, appr)
      [] r = "route_from_act" -> route_from_act(st, fr)
      [] r = "route_from_verify" -> route_from_verify(st, fr)
      [] r = "route_from_recover" -> route_from_recover(st, fr)
      [] r = "route_from_finalize" -> route_from_finalize(st)
      [] r = "route_by_status" -> route_by_status(st)

InitRoute ==
    /\ IdleThreads
    /\ OneRun
    /\ run_id = RUN_ID
    /\ status \in Statuses
    /\ approved \in BOOLEAN
    /\ \E fr \in BOOLEAN : scratch = [Scratch0 EXCEPT !.force_replan = fr]
    /\ plan = NoPlan
    /\ perception = NoPerception
    /\ actions = <<>>
    /\ telemetry = Telemetry0
    /\ requires_human_approval = FALSE
    /\ last_step_started_ms = NoTime
    /\ done_reason = NULL
    /\ idem = <<>>
    /\ dispatch_count = <<>>
    /\ execLog = <<>>
    /\ waited = {}
    /\ verdict = NULL
    /\ picked = NULL
    /\ callLog = <<>>
    /\ now = 0
    /\ node = "none"
    /\ prev = "none"
    /\ retry = RetryBudget(TotalBudget)
    /\ policy = PolicyContext({}, {}, TRUE)
    /\ deps = DefaultDeps(FALSE)

\* router r is called on the state: node holds its answer, prev its name
RouteCall(r) ==
    /\ node' = RouterAnswer(r, status, approved, scratch.force_replan)
    /\ prev' = r
    /\ UNCHANGED <<stateVars, now, execLog, waited, verdict, picked, deps, idem,
                   dispatch_count, callLog, threadVars, other>>

NextRoute == \E r \in Routers : RouteCall(r)

SpecRoute == InitRoute /\ [][NextRoute]_vars

-----------------------------------------------------------------------------
(* Properties of the workflow *)

HighGated ==
    /\ ensure_plan(plan)
    /\ current(plan).risk = "HIGH"
    /\ policy.require_approval_for_high_risk

\* C4: once status is DONE, FAILED or ESCALATED, done_reason is set and no
\* node that runs afterwards changes status, done_reason, the error code, the
\* last error, the plan, the actions or the retry budget.
C4_TerminalIsFinal ==
    [][(status \in Terminal) =>
        /\ done_reason # NULL
        /\ status' = status
        /\ done_reason' = done_reason
        /\ telemetry'.error_code = telemetry.error_code
        /\ telemetry'.last_error = telemetry.last_error
        /\ plan' = plan
        /\ actions' = actions
        /\ retry' = retry]_vars

\* C5: a HIGH-risk step under require_approval_for_high_risk is ACTING only
\* after the status has been WAITING_APPROVAL for that step.
C5_WaitsBeforeActing ==
    (status = "ACTING" /\ HighGated) => plan.current_step_idx \in waited

\* C6: ACTING on a HIGH-risk step under require_approval_for_high_risk implies
\* approved and not requires_human_approval; policy_check sets
\* WAITING_APPROVAL with the flag exactly when the gate is closed and
\* otherwise clears the flag and sets ACTING; act runs only after policy_check.
C6_ApprovalGate ==
    /\ [](status = "ACTING" /\ HighGated => approved /\ ~requires_human_approval)
    /\ [](node = "act" => prev = "policy_check")
    /\ [][node = "policy_check" /\ ensure_plan(plan) =>
            IF HighGated /\ ~approved
            THEN status' = "WAITING_APPROVAL" /\ requires_human_approval'
            ELSE status' = "ACTING" /\ ~requires_human_approval']_vars

C6_Witness ==
    /\ status = "ACTING"
    /\ HighGated
    /\ approved
    /\ plan.current_step_idx \in waited
    /\ node = "act"

\* C7: for every step of the plan the retries counted under its id stay within
\* its max_retries, and the retries used stay within the total budget.
C7_RetryWithinLimits ==
    /\ \A i \in 1..Len(plan.steps) :
        StepCount(retry, plan.steps[i].id) <= plan.steps[i].max_retries
    /\ retry.used <= retry.total_budget

IsPrefix(a, b) == Len(a) <= Len(b) /\ \A i \in 1..Len(a) : b[i] = a[i]

\* C8: across every node the old actions log is a prefix of the new one, and
\* its records are in the order in which the calls were passed to the executor.
C8_AppendOnly ==
    [][/\ IsPrefix(actions, actions')
       /\ Len(actions') = Len(execLog')
       /\ \A i \in 1..Len(actions') : actions'[i].idempotency_key = execLog'[i]]_vars

C8_Witness ==
    \E i, j \in 1..Len(actions) :
        /\ i < j
        /\ actions[i].tool = "click" /\ ~actions[i].ok
        /\ actions[j].tool = "wait"
        /\ prev = "recover"

VerifyRuns == node = "verify" /\ node' # "verify"

\* C9: when the verifier returns ok the step index grows by exactly 1, and the
\* status becomes DONE past the last step, else the step clock is reset and
\* the status becomes PERCEIVING; when it returns not ok the index stays and
\* the status becomes RECOVERING.
C9_VerifyAdvances ==
    [][/\ VerifyRuns /\ verdict' = "ok" =>
            /\ plan'.current_step_idx = plan.current_step_idx + 1
            /\ IF plan'.current_step_idx >= Len(plan'.steps)
               THEN status' = "DONE"
               ELSE status' = "PERCEIVING" /\ last_step_started_ms' = now
       /\ VerifyRuns /\ verdict' = "not_ok" =>
            /\ plan'.current_step_idx = plan.current_step_idx
            /\ status' = "RECOVERING"]_vars

C9_Witness ==
    /\ prev = "verify"
    /\ verdict = "ok"
    /\ status = "DONE"
    /\ plan.current_step_idx = 2
    /\ now > 0

\* C10: whenever perceive sets status POLICY_CHECK, the stored snapshot has
\* its screenshot hash or its screenshot image.
C10_SnapshotHasImage ==
    (status = "POLICY_CHECK" /\ prev = "perceive") =>
        perception.screenshot_hash # NULL \/ perception.screenshot_b64 # NULL

\* a call made by the node that runs in this step is refused by the policy
Refused_now == "tool_denied" \in telemetry'.events \ telemetry.events

\* C12: a tool call of perceive, act or recover that the executor refuses
\* with POLICY_DENY makes the run end ESCALATED.
C12_DenialEscalates ==
    [][(node \in {"perceive", "act", "recover"} /\ Refused_now) =>
            status' = "ESCALATED"]_vars

\* C13: a planner that returns nothing usable ends the run FAILED with
\* PLAN_INVALID, one that raises with PLAN_ERROR, and the state that reaches
\* finalize carries that code and its done_reason.
C13_PlannerFailureKept ==
    (node = "finalize" /\ ~plan.present) =>
        /\ status = "FAILED"
        /\ IF "plan_error" \in telemetry.events
           THEN telemetry.error_code = "PLAN_ERROR" /\ done_reason = "Planner error"
           ELSE /\ telemetry.error_code = "PLAN_INVALID"
                /\ done_reason = "Planner returned empty/invalid plan"

\* C14: when node_recover completes with scratch.force_replan set, the
\* router sends the run to plan.
C14_ReplanRouted ==
    [][(node = "recover" /\ status' \notin Terminal /\ scratch'.force_replan) =>
            node' = "plan"]_vars

Min(a, b) == IF a <= b THEN a ELSE b

ToolRecords(tool) == {i \in 1..Len(actions) : actions[i].tool = tool}

\* C15: the selector's click fails on its first dispatch, recovery returns one
\* wait call, the selector issues the click again and the verifier passes:
\* the run ends DONE with retry.used = 1 and at least 2 ActionRecords.
C15_RecoveryThenSuccess ==
    (/\ node = "end"
     /\ deps.selector = {"click"} /\ deps.recovery = {"wait"} /\ deps.verifier = {"ok"}
     /\ "perceive_capture_failed" \notin telemetry.events
     /\ Len(actions) > 0
     /\ actions[1].tool = "click"
     /\ actions[1].error = "tool failed"
     /\ dispatch_count[actions[1].idempotency_key] = 1
     /\ \A i \in ToolRecords("wait") : actions[i].ok)
    => status = "DONE" /\ retry.used = 1 /\ Len(actions) >= 2

\* C16: when every act succeeds and the verifier always returns not ok, the
\* run ends FAILED with RETRY_EXHAUSTED after exactly min(max_retries, total
\* budget) recovery cycles of the step, each one call of the recovery function.
C16_RetryExhaustion ==
    (node = "end" /\ deps.verifier = {"not_ok"} /\ deps.backend = "healthy") =>
        /\ status = "FAILED"
        /\ telemetry.error_code = "RETRY_EXHAUSTED"
        /\ plan.current_step_idx = 0
        /\ retry.used = Min(plan.steps[1].max_retries, retry.total_budget)
        /\ StepCount(retry, plan.steps[1].id) = retry.used
        /\ Cardinality(ToolRecords("wait")) = retry.used
        /\ \A i \in ToolRecords("click") : actions[i].ok

C16_Witness ==
    /\ node = "end"
    /\ deps.verifier = {"not_ok"}
    /\ telemetry.error_code = "RETRY_EXHAUSTED"
    /\ retry.used = 1
    /\ Cardinality(ToolRecords("wait")) = 1
    /\ Cardinality(ToolRecords("click")) = 2

\* C17: with total_budget = 0 and a valid plan, node_recover sets FAILED with
\* RETRY_EXHAUSTED, calls neither the recovery function nor the executor and
\* leaves the retry budget as it was.
C17_NoBudgetNoRecovery ==
    [][(node = "recover" /\ ensure_plan(plan) /\ retry.total_budget = 0) =>
        /\ status' = "FAILED"
        /\ telemetry'.error_code = "RETRY_EXHAUSTED"
        /\ picked' = NULL
        /\ "recover_attempt" \notin telemetry'.events
        /\ retry' = retry
        /\ actions' = actions
        /\ execLog' = execLog
        /\ idem' = idem
        /\ dispatch_count' = dispatch_count]_vars

C17_Witness ==
    /\ prev = "recover"
    /\ retry.total_budget = 0
    /\ plan.present
    /\ status = "FAILED"
    /\ telemetry.error_code = "RETRY_EXHAUSTED"
    /\ "retry_exhausted" \in telemetry.events

\* C18: when the action selector returns an empty list, node_act sets
\* RECOVERING, calls the executor for nothing and appends no ActionRecord.
C18_EmptySelection ==
    [][(node = "act" /\ picked' = "none") =>
        /\ status' = "RECOVERING"
        /\ actions' = actions
        /\ execLog' = execLog
        /\ idem' = idem
        /\ dispatch_count' = dispatch_count
        /\ policy' = policy]_vars

C18_Witness ==
    /\ prev = "act"
    /\ picked = "none"
    /\ status = "RECOVERING"
    /\ "no_actions_selected" \in telemetry.events
    /\ node = "recover"

\* C19: with tool_allowlist = {screen_capture} a selected click reaches no
\* backend, and the run that selected it ends ESCALATED with POLICY_DENY,
\* perceive having gone through although its other calls were refused.
C19_AllowlistDenial ==
    policy.tool_allowlist = {"screen_capture"} =>
        /\ \A i \in ToolRecords("click") :
            /\ ~actions[i].ok
            /\ actions[i].error = POLICY_DENY_ALLOWLIST
            /\ actions[i].idempotency_key \notin DOMAIN dispatch_count
        /\ (prev = "act" /\ picked = "click") =>
            /\ perception.present
            /\ node = "finalize"
            /\ ToolRecords("click") # {}
        /\ (node \in {"finalize", "end"} /\ ToolRecords("click") # {}) =>
            status = "ESCALATED" /\ telemetry.error_code = "POLICY_DENY"

C19_Witness ==
    /\ policy.tool_allowlist = {"screen_capture"}
    /\ node = "end"
    /\ status = "ESCALATED"
    /\ ToolRecords("click") # {}
    /\ perception.present
    /\ ~perception.has_uia_tree

\* C20: a HIGH-risk step with approved false goes from policy_check to
\* waiting_approval, which routes to itself and changes only status and
\* telemetry while approved is false; once approved is set the next nodes
\* are policy_check and then act.
C20_ApprovalLoop ==
    [][/\ (node = "policy_check" /\ HighGated /\ ~approved) =>
            node' = "waiting_approval"
       /\ (node = "waiting_approval" /\ ~approved /\ ~approved') =>
            /\ node' = "waiting_approval"
            /\ status' = "WAITING_APPROVAL"
            /\ <<plan, perception, actions, policy, retry, requires_human_approval,
                 last_step_started_ms, done_reason, scratch, idem>>' =
               <<plan, perception, actions, policy, retry, requires_human_approval,
                 last_step_started_ms, done_reason, scratch, idem>>
       /\ (node = "waiting_approval" /\ approved) => node' = "policy_check"
       /\ (node = "policy_check" /\ prev = "waiting_approval") => node' = "act"]_vars

C20_Witness ==
    /\ node = "act"
    /\ prev = "policy_check"
    /\ approved
    /\ "waiting_approval" \in telemetry.events
    /\ plan.current_step_idx = 0
    /\ actions = <<>>

\* C21: a one-step LOW-risk plan, a selector that returns one click, backends
\* that all answer, a verifier that returns ok and no step timeout: the run
\* ends DONE with error code DONE and exactly one ActionRecord, of the click
\* under the selector's key, ok, whose effect_fingerprint is the hash that the
\* screen_capture dispatched under that key with :postcap returned.
C21_HappyRun ==
    (/\ node = "end"
     /\ plan.present /\ plan.steps = OneStep
     /\ deps.selector = {"click"} /\ deps.verifier = {"ok"}
     /\ deps.backend = "healthy"
     /\ "tool_denied" \notin telemetry.events
     /\ now - last_step_started_ms <= OneStep[1].timeout_ms)
    =>
    LET k1 == ClickCall(OneStep[1]).idempotency_key
        postcap == Append(k1, "postcap")
    IN
    /\ status = "DONE"
    /\ telemetry.error_code = "DONE"
    /\ Len(actions) = 1
    /\ actions[1].tool = "click"
    /\ actions[1].ok
    /\ actions[1].idempotency_key = k1
    /\ postcap \in DOMAIN idem
    /\ dispatch_count[postcap] = 1
    /\ idem[postcap].ok
    /\ actions[1].effect_fingerprint # NULL
    /\ actions[1].effect_fingerprint = idem[postcap].data.hash

C21_Witness ==
    /\ node = "end"
    /\ status = "DONE"
    /\ plan.steps = OneStep
    /\ deps.selector = {"click"} /\ deps.verifier = {"ok"}
    /\ deps.backend = "healthy"
    /\ now = 1
    /\ Len(actions) = 1
    /\ actions[1].effect_fingerprint = "h2"
    /\ perception.has_uia_tree /\ perception.has_elements

\* C23: a state with status FAILED or ESCALATED has done_reason,
\* telemetry.last_error and telemetry.error_code set, last_error being the
\* done_reason; a state with status DONE has done_reason set, error_code DONE
\* and no last_error.
C23_TerminalFields ==
    /\ status \in {"FAILED", "ESCALATED"} =>
        /\ done_reason # NULL
        /\ telemetry.last_error # NULL
        /\ telemetry.error_code # NULL
        /\ telemetry.last_error = done_reason
    /\ status = "DONE" =>
        /\ done_reason # NULL
        /\ telemetry.error_code = "DONE"
        /\ telemetry.last_error = NULL

C23_Witness ==
    /\ node = "end"
    /\ status = "ESCALATED"
    /\ telemetry.error_code = "POLICY_DENY"
    /\ telemetry.last_error = "Policy denied recovery tool"
    /\ done_reason = telemetry.last_error
    /\ Len(actions) > 1

\* the records appended to the actions log, and the calls handed to the
\* executor, by the node that runs in this step
NewActions == SubSeq(actions', Len(actions) + 1, Len(actions'))
NewExecs == SubSeq(execLog', Len(execLog) + 1, Len(execLog'))

\* the calls of the selection that node_act got from the selector
Selected(name) ==
    (CHOOSE o \in SelectorOutcomes(current(plan)) : o.name = name).calls

\* C26: node_act hands the selector's calls to the executor in list order
\* and stops at the first one that does not return ok: that call is recorded,
\* the calls after it are neither executed nor recorded, and the status is
\* ESCALATED when the error begins with POLICY_DENY and RECOVERING otherwise;
\* the status is VERIFYING only when every call returned ok.
C26_ActStopsAtFirstFailure ==
    [][(node = "act" /\ picked' \in {"click", "click_type", "delete"}) =>
        LET calls == Selected(picked')
            new == NewActions
            m == Len(new)
        IN
        /\ 1 <= m /\ m <= Len(calls)
        /\ Len(NewExecs) = m
        /\ \A i \in 1..m :
            /\ new[i].idempotency_key = calls[i].idempotency_key
            /\ new[i].tool = calls[i].name
            /\ NewExecs[i] = calls[i].idempotency_key
            /\ i < m => new[i].ok
        /\ IF new[m].ok
           THEN m = Len(calls) /\ status' = "VERIFYING"
           ELSE IF IsPolicyDeny(new[m].error)
           THEN status' = "ESCALATED"
           ELSE status' = "RECOVERING"]_vars

\* the first of two selected calls fails: the second is not executed
C26_Witness ==
    /\ prev = "act"
    /\ picked = "click_type"
    /\ status = "RECOVERING"
    /\ Len(actions) = 1
    /\ actions[1].tool = "click"
    /\ ~actions[1].ok
    /\ execLog = <<actions[1].idempotency_key>>
    /\ TypeCall(current(plan)).idempotency_key \notin DOMAIN idem

\* the calls that node_recover got from the recovery function
Recovered(name) ==
    (CHOOSE o \in RecoveryOutcomes(current(plan)) : o.name = name).calls

\* node_recover passes the budget check and calls the recovery function
RecoveryCalled == node = "recover" /\ picked' # NULL

StepId == current(plan).id

\* C27 as stated: a node_recover that passes the budget check consumes one
\* retry unit, executes and records every returned call in order and ends
\* with status PERCEIVING, or FAILED with RECOVERY_ERROR when the recovery
\* function raises.
C27_Original ==
    [][RecoveryCalled =>
        /\ retry'.used = retry.used + 1
        /\ StepCount(retry', StepId) = StepCount(retry, StepId) + 1
        /\ IF picked' = "raise"
           THEN status' = "FAILED" /\ telemetry'.error_code = "RECOVERY_ERROR"
           ELSE /\ Len(NewActions) = Len(Recovered(picked'))
                /\ status' = "PERCEIVING"]_vars

\* C27 amended: a node_recover that passes the budget check consumes exactly
\* one retry unit before it calls the recovery function; it executes the
\* returned calls in order and records each, going on after a failure that is
\* no policy denial, and ends with status PERCEIVING; a call refused with
\* POLICY_DENY is recorded, ends the loop and makes the run ESCALATED; when
\* the recovery function raises the run is FAILED with RECOVERY_ERROR, the
\* unit consumed and nothing executed.
C27_RecoverConsumesAndRuns ==
    [][/\ (node = "recover" /\ ensure_plan(plan)
            /\ can_retry_step(retry, StepId, current(plan).max_retries))
          => picked' # NULL
       /\ RecoveryCalled =>
        /\ retry'.used = retry.used + 1
        /\ StepCount(retry', StepId) = StepCount(retry, StepId) + 1
        /\ \A id \in DOMAIN retry.step_retry_counts \ {StepId} :
              StepCount(retry', id) = StepCount(retry, id)
        /\ "recover_attempt" \in telemetry'.events
        /\ IF picked' = "raise"
           THEN /\ status' = "FAILED"
                /\ telemetry'.error_code = "RECOVERY_ERROR"
                /\ actions' = actions
                /\ execLog' = execLog
           ELSE LET calls == Recovered(picked')
                    new == NewActions
                    m == Len(new)
                IN
                /\ m <= Len(calls)
                /\ Len(NewExecs) = m
                /\ \A i \in 1..m :
                    /\ new[i].idempotency_key = calls[i].idempotency_key
                    /\ new[i].tool = calls[i].name
                    /\ new[i].effect_fingerprint = NULL
                    /\ NewExecs[i] = calls[i].idempotency_key
                    /\ i < m => ~IsPolicyDeny(new[i].error)
                /\ IF m > 0 /\ IsPolicyDeny(new[m].error)
                   THEN /\ status' = "ESCALATED"
                        /\ telemetry'.error_code = "POLICY_DENY"
                   ELSE /\ m = Len(calls)
                        /\ status' = "PERCEIVING"]_vars

\* the first recovery call fails, the second one is still executed
C27_Witness ==
    /\ prev = "recover"
    /\ picked = "click_wait"
    /\ status = "PERCEIVING"
    /\ retry.used = 1
    /\ Len(actions) >= 2
    /\ actions[Len(actions) - 1].tool = "click"
    /\ actions[Len(actions) - 1].error = "tool failed"
    /\ actions[Len(actions)].tool = "wait"
    /\ actions[Len(actions)].ok

\* node n runs in this step (the clock moves between the nodes only)
Runs(n) == node = n /\ now' = now

\* more time than the current step's timeout_ms has passed since the step
\* was started
TimedOut ==
    /\ ensure_plan(plan)
    /\ last_step_started_ms # NoTime
    /\ now - last_step_started_ms > current(plan).timeout_ms

\* C28: perceive, act and verify, entered with a valid plan after more than
\* the step's timeout_ms since last_step_started_ms, set FAILED with
\* STEP_TIMEOUT and call neither the executor nor the selector nor the
\* verifier; policy_check, waiting_approval and recover never set
\* STEP_TIMEOUT.
C28_StepTimeout ==
    [][/\ ((Runs("perceive") \/ Runs("act") \/ Runs("verify")) /\ TimedOut) =>
            /\ status' = "FAILED"
            /\ telemetry'.error_code = "STEP_TIMEOUT"
            /\ node' = "finalize"
            /\ picked' = NULL
            /\ verdict' \in {NULL, verdict}
            /\ telemetry'.events \ telemetry.events = {"terminal"}
            /\ <<actions, execLog, idem, dispatch_count, policy, perception, plan>>' =
               <<actions, execLog, idem, dispatch_count, policy, perception, plan>>
       /\ (node \in {"policy_check", "waiting_approval", "recover"}) =>
            telemetry'.error_code # "STEP_TIMEOUT"]_vars

C28_Witness ==
    /\ prev = "verify"
    /\ status = "FAILED"
    /\ telemetry.error_code = "STEP_TIMEOUT"
    /\ done_reason = "Step timeout exceeded (verify)"
    /\ verdict = NULL
    /\ Len(actions) = 1
    /\ now - last_step_started_ms > StepTimeout

\* an executor call of the node that runs in this step raised: a backend
\* was invoked and no result can be found under the key
RaisedNow ==
    \E k \in DOMAIN dispatch_count' :
        /\ CountOf(dispatch_count', k) > CountOf(dispatch_count, k)
        /\ k \notin DOMAIN idem'

RouteOfRecovering == IF scratch'.force_replan THEN "plan" ELSE "recover"

\* C29: every node returns a state. An exception of the action selector, of
\* the verifier, or of an executor call inside perceive or act leaves status
\* RECOVERING and an error event, and the router goes on with recovery; an
\* exception of the planner ends the run FAILED with PLAN_ERROR, one of the
\* recovery function or of its executor calls FAILED with RECOVERY_ERROR.
C29_NoExceptionEscapes ==
    [][/\ status' \in Statuses
       /\ (node = "perceive" /\ RaisedNow) =>
            /\ status' = "RECOVERING"
            /\ "perceive_error" \in telemetry'.events
            /\ perception' = perception
            /\ node' = "recover"
       /\ (node = "act" /\ (RaisedNow \/ picked' = "raise")) =>
            /\ status' = "RECOVERING"
            /\ "act_error" \in telemetry'.events
            /\ node' = RouteOfRecovering
       /\ (node = "verify" /\ verdict' = "raise") =>
            /\ status' = "RECOVERING"
            /\ "verify_error" \in telemetry'.events
            /\ plan' = plan
            /\ node' = RouteOfRecovering
       /\ (node = "plan" /\ picked' = "raise") =>
            /\ status' = "FAILED"
            /\ telemetry'.error_code = "PLAN_ERROR"
            /\ "plan_error" \in telemetry'.events
       /\ (node = "recover" /\ (RaisedNow \/ picked' = "raise")) =>
            /\ status' = "FAILED"
            /\ telemetry'.error_code = "RECOVERY_ERROR"
            /\ "recover_error" \in telemetry'.events
            /\ node' = "finalize"]_vars

\* the capture after the click raised; recovery ran and the run went on
C29_Witness ==
    /\ "act_error" \in telemetry.events
    /\ \E k \in DOMAIN dispatch_count : k[Len(k)] = "postcap" /\ k \notin DOMAIN idem
    /\ retry.used = 1
    /\ prev = "perceive"
    /\ status = "POLICY_CHECK"

\* what a call of perceive with this tool and key returns, read after the
\* node ran: the refusal of the policy, or the result kept under the key
Allowed(tool) == policy_allows(policy, tool).res.ok
GotOk(tool, key) == Allowed(tool) /\ key \in DOMAIN idem' /\ idem'[key].ok

CaptureKey ==
    toolcall_key(RUN_ID, current(plan), "screen_capture",
                 <<"return_b64", BoolJson(deps.store_screenshot_b64)>>, "")
CaptureUsable ==
    GotOk("screen_capture", CaptureKey) /\ idem'[CaptureKey].data.kind = "dict"
UiaKey(hash) ==
    toolcall_key(RUN_ID, current(plan), "uia_tree", <<"scope", "focused_window">>,
                 Str(hash))
OmniKey(hash) ==
    toolcall_key(RUN_ID, current(plan), "omniparser_v2_parse",
                 <<"image_hash", hash, "step_id", current(plan).id>>, "")

\* C30: when the screen_capture of perceive returns a usable result, perceive
\* installs the snapshot and sets POLICY_CHECK whatever the focus_window,
\* uia_tree and omniparser_v2_parse calls return, a part being in the
\* snapshot exactly when its call returned ok; when the capture is refused,
\* fails or returns no dict, perceive sets RECOVERING and leaves the
\* perception as it was.
C30_PartialPerception ==
    [][(Runs("perceive") /\ ensure_plan(plan) /\ ~TimedOut) =>
        IF CaptureUsable
        THEN LET hash == idem'[CaptureKey].data.hash IN
             /\ status' = "POLICY_CHECK"
             /\ node' = "policy_check"
             /\ perception'.present
             /\ perception'.screenshot_hash = hash
             /\ perception'.has_uia_tree = GotOk("uia_tree", UiaKey(hash))
             /\ perception'.has_elements =
                    (scratch.need_vision /\ GotOk("omniparser_v2_parse", OmniKey(hash)))
        ELSE /\ status' = "RECOVERING"
             /\ perception' = perception
             /\ "perceive_capture_failed" \in telemetry'.events]_vars

\* focus and UI tree failed, the snapshot is installed without the tree
C30_Witness ==
    /\ prev = "perceive"
    /\ status = "POLICY_CHECK"
    /\ perception.present
    /\ ~perception.has_uia_tree
    /\ perception.has_elements
    /\ \E k \in DOMAIN idem : k[3] = "focus_window" /\ ~idem[k].ok
    /\ \E k \in DOMAIN idem : k[3] = "uia_tree" /\ ~idem[k].ok

\* C39: the key of perceive's screen_capture call is made of run_id, the id
\* of the current step, the alias and the args only. Once the executor holds
\* a result under it, a perceive cycle for that step dispatches no capture,
\* leaves the cached result in place and builds its snapshot from it, so the
\* screenshot_hash is the same in every retry; the capture backend is invoked
\* at most once under each such key.
C39_CaptureOncePerStep ==
    /\ [](\A k \in DOMAIN dispatch_count :
            k[3] = "screen_capture" => dispatch_count[k] <= 1)
    /\ [][Runs("perceive") =>
            /\ \A k \in DOMAIN idem' \ DOMAIN idem :
                    k[3] = "screen_capture" => k = CaptureKey
            /\ (ensure_plan(plan) /\ CaptureKey \in DOMAIN idem) =>
                    /\ CountOf(dispatch_count', CaptureKey) =
                       CountOf(dispatch_count, CaptureKey)
                    /\ idem'[CaptureKey] = idem[CaptureKey]
                    /\ status' = "POLICY_CHECK" =>
                            perception'.screenshot_hash =
                                idem[CaptureKey].data.hash]_vars

\* perceive has run again for the first step after a recovery
C39_Witness ==
    /\ prev = "perceive"
    /\ status = "POLICY_CHECK"
    /\ retry.used > 0
    /\ plan.current_step_idx = 0
    /\ "tool_idempotent_hit" \in telemetry.events
    /\ CountOf(dispatch_count, CaptureKey) = 1
    /\ perception.screenshot_hash = idem[CaptureKey].data.hash

InProgress ==
    {"PERCEIVING", "POLICY_CHECK", "WAITING_APPROVAL", "ACTING", "VERIFYING",
     "RECOVERING"}

\* C38: once the planner has given a plan, in every state whose status is
\* PERCEIVING, POLICY_CHECK, WAITING_APPROVAL, ACTING, VERIFYING or RECOVERING
\* the step pointer is at a step of the plan, 0 <= current_step_idx <
\* len(steps); and the pointer never decreases.
C38_StepPointerInRange ==
    /\ []((plan.present /\ status \in InProgress) =>
            /\ 0 <= plan.current_step_idx
            /\ plan.current_step_idx < Len(plan.steps))
    /\ [][plan'.current_step_idx >= plan.current_step_idx]_vars

\* the second of two steps is being retried
C38_Witness ==
    /\ status = "RECOVERING"
    /\ prev = "verify"
    /\ plan.current_step_idx = 1
    /\ Len(plan.steps) = 2

\* the verifier is called by this step and returns ok
VerifiedOk == Runs("verify") /\ verdict' = "ok"

\* C40: last_step_started_ms is written by node_plan when the planner gives
\* a plan and by node_verify when it moves on to the next step, both with
\* the clock's reading; every other node, and these two on their other paths,
\* leave it as it is.
C40_StepClockWriters ==
    [][IF Runs("plan") /\ picked' # NULL /\ status' = "PERCEIVING"
       THEN last_step_started_ms' = now
       ELSE IF VerifiedOk /\ status' = "PERCEIVING"
       THEN last_step_started_ms' = now
       ELSE last_step_started_ms' = last_step_started_ms]_vars

\* the second step started later than the first, and the clock has moved
\* since while perceive and policy_check ran
C40_Witness ==
    /\ prev = "policy_check"
    /\ plan.current_step_idx = 1
    /\ last_step_started_ms > 0
    /\ now > last_step_started_ms

\* C37: only node_verify sets DONE, on a verifier's ok. The step pointer
\* starts at 0 and moves only by one, exactly when the verifier returns ok for
\* the step it points at, and in a DONE state it equals the number of steps:
\* the verifier has returned ok once for each step, in the order of the plan.
C37_DoneMeansAllVerified ==
    /\ [](status = "DONE" =>
            /\ plan.present
            /\ Len(plan.steps) > 0
            /\ plan.current_step_idx = Len(plan.steps))
    /\ [][/\ (status' = "DONE" /\ status # "DONE") => VerifiedOk
          /\ ~plan.present => plan'.current_step_idx = 0
          /\ plan.present =>
                plan'.current_step_idx =
                    IF VerifiedOk THEN plan.current_step_idx + 1
                    ELSE plan.current_step_idx]_vars

\* a plan of two steps carried out
C37_Witness ==
    /\ status = "DONE"
    /\ prev = "verify"
    /\ verdict = "ok"
    /\ Len(plan.steps) = 2
    /\ Len(actions) = 2

\* C36: node_plan calls the planner only when it is entered with status
\* PLANNING or INIT; entered with another status it leaves plan (and its
\* current_step_idx), status, retry and actions as they are. The planner is
\* called at most once in a run, right after initialize: once node_plan has
\* run the status is never PLANNING or INIT again. The steps of a plan once
\* made are never replaced.
C36_PlannerOnce ==
    [][/\ Runs("plan") =>
            IF status \in {"PLANNING", "INIT"}
            THEN picked' # NULL /\ prev = "initialize" /\ ~plan.present
            ELSE /\ picked' = NULL
                 /\ UNCHANGED <<plan, status, retry, actions>>
       /\ plan.present => plan'.present /\ plan'.steps = plan.steps
       /\ (Runs("plan") \/ status \notin {"PLANNING", "INIT"}) =>
            status' \notin {"PLANNING", "INIT"}]_vars

\* node_plan entered after a failed act with scratch.force_replan set
C36_Witness ==
    /\ prev = "plan"
    /\ status = "RECOVERING"
    /\ scratch.force_replan
    /\ picked = NULL
    /\ plan.present
    /\ "plan_skipped" \in telemetry.events

\* C35: every way back to perceive from a failed act or verify consumes retry
\* budget, so that the budget bounds the run: the node that takes a run whose
\* status is RECOVERING back to perceive leaves retry.used greater than it
\* found it.
C35_CyclesConsumeBudget ==
    [][(status = "RECOVERING" /\ node \in {"plan", "recover"} /\ node' = "perceive") =>
        retry'.used > retry.used]_vars

AgentStateFields ==
    {"run_id", "status", "plan", "perception", "actions", "policy", "retry",
     "telemetry", "requires_human_approval", "approved", "last_step_started_ms",
     "done_reason", "scratch"}

\* the same AgentState and the same executor cache
SameRun(R, F) == \A f \in AgentStateFields \cup {"idem"} : R[f] = F[f]

StartOfRun(R) == IF R.scratch.focus_hint THEN StartB ELSE StartA

Finished(R) == R.node = "end" => SameRun(R, RunAlone(StartOfRun(R), deps, 0, MaxNodes))

\* C34: two runs on separate AgentState records do not see each other. A run
\* that has ended, however its nodes were interleaved with the other run's,
\* has the state and cache it has when it runs alone; and a key that both
\* executors hold a result for was dispatched once for each run, both runs
\* building the same keys.
C34_RunsIsolated ==
    /\ Finished(Between(Cur, node, prev))
    /\ Finished(other)
    /\ \A k \in DOMAIN idem \cap DOMAIN other.idem : CountOf(dispatch_count, k) >= 2

\* both runs are done and hold a result under the same key
C34_Witness ==
    /\ node = "end"
    /\ other.node = "end"
    /\ status = "DONE"
    /\ other.status = "DONE"
    /\ DOMAIN idem \cap DOMAIN other.idem # {}

\* C32: finalize is the last node of a run and runs once. A run whose status
\* is terminal is at finalize, past it, or at the perceive node that the fixed
\* edge plan -> perceive puts before it, and that perceive goes to finalize;
\* finalize goes to end and leaves status, done_reason and actions alone;
\* after it scratch holds no executor and no node runs again.
C32_FinalizeOnceAndLast ==
    /\ [](status \in Terminal =>
            \/ node \in {"finalize", "end"}
            \/ node = "perceive" /\ prev = "plan")
    /\ [](node = "end" =>
            /\ prev = "finalize"
            /\ status \in Terminal
            /\ ~scratch.executor)
    /\ [][/\ node # "end"
          /\ (node = "perceive" /\ status \in Terminal) => node' = "finalize"
          /\ (node' = "finalize") => status' \in Terminal
          /\ (node = "finalize") =>
                /\ node' = "end"
                /\ UNCHANGED <<status, done_reason, actions>>]_vars

\* a finished run whose executor had cached results
C32_Witness ==
    /\ node = "end"
    /\ status = "DONE"
    /\ idem # <<>>
    /\ ~scratch.executor

\* C31: node_initialize keeps a run_id that is present and assigns a new one
\* only to an empty one; it installs the default denylist and
\* require_approval_for_high_risk only when allowlist and denylist are both
\* empty and else leaves the policy as it is; it sets status PLANNING.
C31_InitializeFrame ==
    [][(node = "initialize") =>
        /\ IF run_id = "" THEN run_id' \in NewRunIds ELSE run_id' = run_id
        /\ IF policy.tool_allowlist = {} /\ policy.tool_denylist = {}
           THEN /\ policy'.tool_denylist =
                      {"file_delete", "process_kill", "registry_write"}
                /\ policy'.require_approval_for_high_risk
                /\ policy'.tool_allowlist = {}
                /\ policy'.last_decision = policy.last_decision
                /\ policy'.deny_reason = policy.deny_reason
           ELSE policy' = policy
        /\ status' = "PLANNING"
        /\ <<plan, perception, actions, retry, requires_human_approval, approved,
             last_step_started_ms, done_reason, scratch, idem>>' =
           <<plan, perception, actions, retry, requires_human_approval, approved,
             last_step_started_ms, done_reason, scratch, idem>>]_vars

\* an empty run_id and a policy with an allowlist only
C31_Witness ==
    /\ prev = "initialize"
    /\ status = "PLANNING"
    /\ run_id \in NewRunIds
    /\ policy.tool_allowlist = {"click"}
    /\ policy.tool_denylist = {}
    /\ ~policy.require_approval_for_high_risk

-----------------------------------------------------------------------------
(* Properties of the routers *)

\* C22: every routing function but route_from_finalize, and route_by_status,
\* returns finalize on a state whose status is DONE, FAILED or ESCALATED,
\* whatever approved and scratch.force_replan are; calling the routers again
\* gives the same answer and changes nothing in the state.
C22_TerminalRoutesToFinalize ==
    /\ []((status \in Terminal /\ prev \notin {"none", "route_from_finalize"}) =>
            node = "finalize")
    /\ [][/\ stateVars' = stateVars
          /\ prev' = prev => node' = node]_vars

C22_Witness ==
    /\ status = "ESCALATED"
    /\ ~approved
    /\ scratch.force_replan
    /\ prev = "route_from_recover"
    /\ node = "finalize"

\* the statuses the node before each router leaves behind when it does not
\* end the run (nodes.py:173, 194, 341, 345, 366-370, 435-451, 478-484, 544,
\* 557)
Expected(r) ==
    CASE r = "route_from_initialize" -> {"PLANNING"}
      [] r = "route_from_plan" -> {"PERCEIVING"}
      [] r = "route_from_perceive" -> {"POLICY_CHECK", "RECOVERING"}
      [] r = "route_from_policy_check" -> {"WAITING_APPROVAL", "ACTING"}
      [] r = "route_from_waiting_approval" -> {"WAITING_APPROVAL"}
      [] r = "route_from_act" -> {"VERIFYING", "RECOVERING"}
      [] r = "route_from_verify" -> {"PERCEIVING", "RECOVERING"}
      [] r = "route_from_recover" -> {"PERCEIVING"}
      [] OTHER -> Statuses

Unexpected(r) == prev = r /\ status \notin Terminal \cup Expected(r)

RecoverByDefault ==
    {"route_from_plan", "route_from_perceive", "route_from_policy_check",
     "route_from_act", "route_from_verify"}

\* C33 as stated: each of the eight per-node routers sends a non-terminal
\* status its node does not produce to recover.
C33_Original ==
    \A r \in RecoverByDefault \cup {"route_from_recover", "route_from_waiting_approval",
                                    "route_from_initialize"} :
        Unexpected(r) => node = "recover"

\* C33: the routers after plan, perceive, policy_check, act and verify send a
\* non-terminal status their node does not produce to recover; on such a
\* status route_from_recover answers plan when scratch.force_replan is set and
\* perceive otherwise, route_from_waiting_approval answers policy_check when
\* approved and waiting_approval otherwise, and route_from_initialize
\* answers plan.
C33_UnexpectedStatusDefaults ==
    /\ \A r \in RecoverByDefault : Unexpected(r) => node = "recover"
    /\ Unexpected("route_from_recover") =>
            node = IF scratch.force_replan THEN "plan" ELSE "perceive"
    /\ Unexpected("route_from_waiting_approval") =>
            node = IF approved THEN "policy_check" ELSE "waiting_approval"
    /\ Unexpected("route_from_initialize") => node = "plan"

C33_Witness ==
    /\ prev = "route_from_act"
    /\ status = "PLANNING"
    /\ scratch.force_replan
    /\ node = "recover"

-----------------------------------------------------------------------------
(* Properties of the executor *)

SameKey(i, j) == callLog[i].call.idempotency_key = callLog[j].call.idempotency_key
Denied(i) == callLog[i].emitted = "tool_denied"
FirstWithKey(i) == \A h \in 1..(i - 1) : ~SameKey(h, i)
FirstAllowedWithKey(i) == ~Denied(i) /\ \A h \in 1..(i - 1) : SameKey(h, i) => Denied(h)

\* C1 as stated: every call after the first with the same idempotency key
\* returns the first call's result, dispatches nothing and emits
\* tool_idempotent_hit.
C1_Original ==
    \A i, j \in 1..Len(callLog) :
        (i < j /\ SameKey(i, j) /\ FirstWithKey(i)) =>
            /\ callLog[j].res = callLog[i].res
            /\ ~callLog[j].invoked
            /\ callLog[j].emitted = "tool_idempotent_hit"

\* C1 amended: among the calls that pass the policy check, every call after
\* the first with the same idempotency key returns the first one's result,
\* dispatches nothing and emits tool_idempotent_hit, so no key is dispatched
\* twice; a call the policy refuses returns POLICY_DENY, dispatches nothing
\* and emits tool_denied.
C1_IdempotentReplay ==
    /\ \A i, j \in 1..Len(callLog) :
        (i < j /\ SameKey(i, j) /\ FirstAllowedWithKey(i) /\ ~Denied(j)) =>
            /\ callLog[j].res = callLog[i].res
            /\ ~callLog[j].invoked
            /\ callLog[j].emitted = "tool_idempotent_hit"
    /\ \A j \in 1..Len(callLog) :
        Denied(j) => ~callLog[j].invoked /\ IsPolicyDeny(callLog[j].res.error)
    /\ \A k \in DOMAIN dispatch_count : dispatch_count[k] <= 1

\* a failed backend call replayed under its key by a call to another tool
C1_Witness ==
    \E i, j \in 1..Len(callLog) :
        /\ i < j /\ SameKey(i, j) /\ FirstAllowedWithKey(i) /\ ~Denied(j)
        /\ callLog[i].invoked /\ ~callLog[i].res.ok
        /\ callLog[i].call.name # callLog[j].call.name
        /\ callLog[j].emitted = "tool_idempotent_hit"

Returned(t) == tpc[t] = "done"
Refused(t) == Returned(t) /\ IsPolicyDeny(tret[t].error)

\* C2: under every interleaving of concurrent callers using one key the tool
\* is dispatched at most once and the callers receive the same ToolResult.
C2_AtMostOnce ==
    /\ \A k \in DOMAIN dispatch_count : dispatch_count[k] <= 1
    /\ \A t, u \in Threads :
        (/\ Returned(t) /\ Returned(u) /\ ~Refused(t) /\ ~Refused(u)
         /\ tcall[t].idempotency_key = tcall[u].idempotency_key)
            => tret[t] = tret[u]

\* C3: a stored cache entry is never overwritten by another result, and the
\* policy's last_decision/deny_reason change only while the mutex is held.
C3_FirstWriterWins ==
    [][/\ \A k \in DOMAIN idem : idem'[k] = idem[k]
       /\ (policy' # policy => lock # NULL)]_vars

Refusable(pol, alias) ==
    \/ pol.tool_allowlist # {} /\ alias \notin pol.tool_allowlist
    \/ alias \in pol.tool_denylist

LastCall == callLog'[Len(callLog')]

\* C11: a call whose alias is outside a non-empty allowlist, or inside the
\* denylist, returns a failure that begins with POLICY_DENY, leaves
\* last_decision = DENY with a deny_reason, reaches no backend and leaves the
\* idempotency cache alone, also when its key is already cached.
C11_PolicyGate ==
    [][(Len(callLog') > Len(callLog) /\ Refusable(policy, LastCall.call.name)) =>
        /\ ~LastCall.res.ok
        /\ IsPolicyDeny(LastCall.res.error)
        /\ policy'.last_decision = "DENY"
        /\ policy'.deny_reason # NULL
        /\ ~LastCall.invoked
        /\ dispatch_count' = dispatch_count
        /\ idem' = idem
        /\ LastCall.emitted = "tool_denied"]_vars

C11_Witness ==
    \E i, j \in 1..Len(callLog) :
        /\ i < j
        /\ SameKey(i, j)
        /\ callLog[i].emitted = "tool_called"
        /\ callLog[j].res.error = POLICY_DENY_ALLOWLIST
        /\ policy.last_decision = "DENY"
        /\ j = Len(callLog)

\* call i went to the dispatch and came back with a failure
FailedDispatch(i) == callLog[i].emitted = "tool_called" /\ ~callLog[i].res.ok

\* C25 as stated: after a dispatch that failed or raised, every later call
\* with the same idempotency key returns that failure and nothing is
\* dispatched again.
C25_Original ==
    \A i, j \in 1..Len(callLog) :
        (i < j /\ SameKey(i, j) /\ FailedDispatch(i)) =>
            /\ callLog[j].res = callLog[i].res
            /\ ~callLog[j].invoked

\* C25 amended: after a dispatch that failed or raised, every later call with
\* the same idempotency key that passes the policy check returns that failure,
\* and no later call with the key is dispatched; a later call with the key
\* that the policy refuses returns POLICY_DENY.
C25_FailuresCached ==
    \A i, j \in 1..Len(callLog) :
        (i < j /\ SameKey(i, j) /\ FailedDispatch(i)) =>
            /\ ~callLog[j].invoked
            /\ callLog[j].backend = NoInvocation
            /\ IF Denied(j)
               THEN IsPolicyDeny(callLog[j].res.error)
               ELSE /\ callLog[j].res = callLog[i].res
                    /\ callLog[j].emitted = "tool_idempotent_hit"
            /\ CountOf(dispatch_count, callLog[i].call.idempotency_key) <= 1

\* a backend that raised, replayed twice under its key
C25_Witness ==
    /\ Len(callLog) = 3
    /\ FailedDispatch(1)
    /\ callLog[1].res.error = "RuntimeError: boom"
    /\ \A j \in {2, 3} :
        /\ SameKey(1, j)
        /\ callLog[j].call.name = callLog[1].call.name
        /\ callLog[j].res = callLog[1].res
    /\ dispatch_count[callLog[1].call.idempotency_key] = 1

\* C24: a call that passes the policy and misses the cache runs the local
\* function when its alias is a registered local tool, also when the alias has
\* a remote mapping; else it calls the remote client with the fully-qualified
\* name, the args and timeout_ms when the alias is mapped and a client is
\* configured; else it returns TOOL_NOT_FOUND (no mapping) or
\* MCP_NOT_CONFIGURED (no client) with ok false. One backend at most is
\* invoked, once.
C24_DispatchRouting ==
    [][(Len(callLog') > Len(callLog) /\ LastCall.emitted = "tool_called") =>
        LET c == LastCall.call
            b == LastCall.backend
        IN
        /\ IF c.name \in deps.local_tools
           THEN b = [backend |-> "local", target |-> c.name, args |-> c.args,
                     timeout_ms |-> NoTime]
           ELSE IF c.name \in DOMAIN alias_to_fq /\ deps.mcp_configured
           THEN b = [backend |-> "mcp", target |-> alias_to_fq[c.name],
                     args |-> c.args, timeout_ms |-> c.timeout_ms]
           ELSE /\ b.backend = "none"
                /\ ~LastCall.res.ok
                /\ LastCall.res.error =
                      IF c.name \in DOMAIN alias_to_fq
                      THEN MCP_NOT_CONFIGURED ELSE TOOL_NOT_FOUND
        /\ LastCall.invoked <=> b.backend # "none"
        /\ \A k \in DOMAIN dispatch_count' :
              dispatch_count'[k] = CountOf(dispatch_count, k)
                  + (IF k = c.idempotency_key /\ b.backend # "none" THEN 1 ELSE 0)]_vars

C24_Witness ==
    \E i, j \in 1..Len(callLog) :
        /\ i < j
        /\ callLog[i].call.name = "click"
        /\ callLog[i].backend.backend = "local"
        /\ "click" \in DOMAIN alias_to_fq
        /\ callLog[j].call.name = "wait"
        /\ callLog[j].backend.backend = "local"
        /\ deps.mcp_configured

====
